---------------------------- MODULE Spec2Model ----------------------------
(***************************************************************************)
(* Streaming base backup and WAL shipping: the sender of                   *)
(* src/backend/replication/basebackup.c, the backup client of              *)
(* src/bin/pg_basebackup/pg_basebackup.c and the WAL receiver of           *)
(* src/bin/pg_basebackup/receivelog.c.                                     *)
(*                                                                         *)
(* Strings are sequences of character codes, so that formatting and        *)
(* parsing are computed and not assumed.                                   *)
(***************************************************************************)
EXTENDS Integers, Sequences, FiniteSets, TLC

(***************************************************************************)
(* Bounds of the model.                                                    *)
(***************************************************************************)
\* number of copy-data messages one WAL stream delivers
MaxWalMsgs == 3

(***************************************************************************)
(* Program constants.                                                      *)
(***************************************************************************)
XLOG_SEG_SIZE == 16777216
STREAMING_HEADER_SIZE == 25
\* a uint32 holds XLOG_SEG_SIZE * SegsPerUint32 values
SegsPerUint32 == 256
XLogSegsPerFile == 255

(***************************************************************************)
(* Generic helpers.                                                        *)
(***************************************************************************)
Min(a, b) == IF a < b THEN a ELSE b

Max(a, b) == IF a > b THEN a ELSE b

\* the element of a one-element set.  A result that is used more than once
\* is bound as the element of {result}, so that it is computed once.
The(S) == CHOOSE x \in S : TRUE

RECURSIVE Pow(_, _)
Pow(b, e) == IF e = 0 THEN 1 ELSE b * Pow(b, e - 1)

\* the character code of hexadecimal digit d, upper case as printf's %X
HexDigit(d) == IF d < 10 THEN 48 + d ELSE 55 + d

(***************************************************************************)
(* uint32.  A value v is held as [hi, lo] with v = hi * XLOG_SEG_SIZE + lo, *)
(* 0 <= hi < 256 and 0 <= lo < XLOG_SEG_SIZE (2^24), so that the whole      *)
(* 32-bit range and its wrap-around are kept.                               *)
(***************************************************************************)
U32(hi, lo) == [hi |-> hi, lo |-> lo]

\* the uint32 of a small non-negative integer
ToU32(n) == U32((n \div XLOG_SEG_SIZE) % SegsPerUint32, n % XLOG_SEG_SIZE)

\* v + n in uint32 arithmetic, for 0 <= n < 2^30
U32Add(v, n) ==
    U32((v.hi + (v.lo + n) \div XLOG_SEG_SIZE) % SegsPerUint32,
        (v.lo + n) % XLOG_SEG_SIZE)

\* v % XLOG_SEG_SIZE and v / XLOG_SEG_SIZE, which are ints
U32ModSeg(v) == v.lo

U32DivSeg(v) == v.hi

\* printf("%08X", v)
Hex8(v) ==
    [i \in 1..8 |->
        IF i <= 2 THEN HexDigit((v.hi \div Pow(16, 2 - i)) % 16)
        ELSE HexDigit((v.lo \div Pow(16, 8 - i)) % 16)]

(***************************************************************************)
(* off_t / uint64 sizes.  A size v is held as [hi, lo] with                *)
(* v = hi * OFF_BASE + lo and 0 <= lo < OFF_BASE (2^30), so that sizes at  *)
(* and above the tar limit of 2^33 are kept.                               *)
(***************************************************************************)
OFF_BASE == 1073741824

Off(hi, lo) == [hi |-> hi, lo |-> lo]

\* the size of a non-negative integer
OffOfInt(n) == Off(n \div OFF_BASE, n % OFF_BASE)

\* the integer of a size below 2^31
OffInt(v) == v.hi * OFF_BASE + v.lo

OffAdd(a, b) ==
    Off(a.hi + b.hi + (a.lo + b.lo) \div OFF_BASE, (a.lo + b.lo) % OFF_BASE)

\* v / 1024
OffDiv1024(v) == v.hi * (OFF_BASE \div 1024) + v.lo \div 1024

(***************************************************************************)
(* State.                                                                  *)
(***************************************************************************)
VARIABLES
    \* ---- ReceiveXlogStream (receivelog.c) ----
    wpc,            \* position in ReceiveXlogStream
    timeline,       \* its timeline argument
    startpos,       \* its startpos argument
    segment_finish, \* its callback argument: "NULL" or "callback"
    waldir,         \* basedir: file name -> [len, synced]
    walfile,        \* -1, or the descriptor of the open segment file
    walname,        \* current_walfile_name
    walpos,         \* the descriptor's file position, lseek(walfile, 0, SEEK_CUR)
    blockstart,     \* [xlogid, xrecoff]
    xlogoff,
    bytes_left,
    bytes_written,
    wmsgs,          \* copy-data messages received so far
    wevents         \* what the call did, in order

VARIABLES
    \* ---- sendFile on a file that changes while it is read (basebackup.c) ----
    sf_pc,          \* "idle", "call" or "returned"
    sf_in,          \* the call: [size, lens, openable]
    sf_out          \* what the call did: [err, msgs]

VARIABLES
    \* ---- the server: SendBaseBackup (basebackup.c) ----
    sfs,            \* the server's files: path -> what lstat, readdir, readlink give
    progress,       \* the PROGRESS option of the command
    spc,            \* position in SendBaseBackup
    sde,            \* entries of pg_tblspc that ReadDir has returned
    armed,          \* base_backup_cleanup is registered
    sevents,        \* what the session did, in order
    wire            \* the messages sent to the client, in order

VARIABLES
    \* ---- the client: BaseBackup (pg_basebackup.c) ----
    rpc,            \* position in BaseBackup
    basedir,        \* NoStr for NULL
    tardir,         \* NoStr for NULL
    showprogress,
    rpos,           \* messages of wire that libpq has consumed
    res,            \* the result BaseBackup got first: [status, rows]
    ri,             \* BaseBackup's i, the rownum of the batch
    totalsize,
    rfs,            \* the client's files: path -> [kind, chunks, target]
    current_path,
    file,           \* the path of the open file, or NoFile
    current_len_left,
    current_padding,
    rexit           \* "" or what the client printed before exit(1)

VARIABLES
    \* ---- pg_receivexlog: main, StreamLog, FindStreamingStart ----
    xpc,            \* position in pg_receivexlog
    xexit,          \* the exit code, -1 while the process runs
    xcurrentpos,    \* the position IDENTIFY_SYSTEM reported
    xorder,         \* the names readdir returns for basedir, in order
    xde,            \* how many of them readdir has returned
    xhigh,          \* FindStreamingStart's high
    xfound          \* what FindStreamingStart returned

walVars == <<wpc, timeline, startpos, segment_finish, waldir, walfile, walname,
             walpos, blockstart, xlogoff, bytes_left, bytes_written, wmsgs,
             wevents>>

sfVars == <<sf_pc, sf_in, sf_out>>

sbVars == <<sfs, progress, spc, sde, armed, sevents, wire>>

rcvVars == <<rpc, basedir, tardir, showprogress, rpos, res, ri, totalsize, rfs,
             current_path, file, current_len_left, current_padding, rexit>>

xlogVars == <<xpc, xexit, xcurrentpos, xorder, xde, xhigh, xfound>>

vars == <<walVars, sfVars, sbVars, rcvVars, xlogVars>>

\* what the steps of one part of the program leave alone
WalFrame == UNCHANGED <<sfVars, sbVars, rcvVars, xlogVars>>

SendFileFrame == UNCHANGED <<walVars, sbVars, rcvVars, xlogVars>>

SessionFrame == UNCHANGED <<walVars, sfVars, xlogVars>>

(***************************************************************************)
(* The values the variables of a part keep in the specifications in which  *)
(* that part does not run.                                                 *)
(***************************************************************************)
NoName == <<>>

NoStr == <<-1>>

NoFile == <<-1>>

IdleWal ==
    /\ wpc = "idle"
    /\ timeline = ToU32(0)
    /\ startpos = [xlogid |-> ToU32(0), xrecoff |-> ToU32(0)]
    /\ segment_finish = "NULL"
    /\ waldir = <<>>
    /\ walfile = -1
    /\ walname = NoName
    /\ walpos = 0
    /\ blockstart = startpos
    /\ xlogoff = 0
    /\ bytes_left = 0
    /\ bytes_written = 0
    /\ wmsgs = 0
    /\ wevents = <<>>

IdleXlog ==
    /\ xpc = "idle"
    /\ xexit = -1
    /\ xcurrentpos = [xlogid |-> ToU32(0), xrecoff |-> ToU32(0)]
    /\ xorder = <<>>
    /\ xde = 0
    /\ xhigh = [xlogid |-> ToU32(0), xrecoff |-> ToU32(0)]
    /\ xfound = [xlogid |-> ToU32(0), xrecoff |-> ToU32(0)]

IdleSendFile ==
    /\ sf_pc = "idle"
    /\ sf_in = [size |-> 0, lens |-> <<0>>, openable |-> FALSE]
    /\ sf_out = [err |-> FALSE, msgs |-> <<>>]

IdleSender ==
    /\ sfs = <<>>
    /\ progress = FALSE
    /\ spc = "idle"
    /\ sde = 0
    /\ armed = FALSE
    /\ sevents = <<>>
    /\ wire = <<>>

IdleClient ==
    /\ rpc = "idle"
    /\ basedir = NoStr
    /\ tardir = NoStr
    /\ showprogress = FALSE
    /\ rpos = 0
    /\ res = [status |-> "", rows |-> <<>>]
    /\ ri = 0
    /\ totalsize = 0
    /\ rfs = <<>>
    /\ current_path = <<>>
    /\ file = NoFile
    /\ current_len_left = 0
    /\ current_padding = 0
    /\ rexit = ""

(***************************************************************************)
(* receivelog.c                                                            *)
(***************************************************************************)
\* XLogFileName(fname, tli, log, seg)
XLogFileName(tli, log, seg) == Hex8(tli) \o Hex8(log) \o Hex8(seg)

\* the name open_walfile builds for startpoint
WalFileNameFor(startpoint, tli) ==
    XLogFileName(tli, startpoint.xlogid, ToU32(U32DivSeg(startpoint.xrecoff)))

\* mutant: open(fn, O_WRONLY | O_CREAT | O_TRUNC) succeeds on any name
OpenWalfileOk_Truncating(startpoint, tli) == TRUE

\* open(fn, O_WRONLY | O_CREAT | O_EXCL): fails when the name exists
OpenWalfileOk(startpoint, tli) ==
    WalFileNameFor(startpoint, tli) \notin DOMAIN waldir

\* mutant: the block is written in one piece, across the boundary
BytesToWrite_Unsplit == bytes_left

\* the bytes of the current block the next write() is asked to write
BytesToWrite ==
    IF xlogoff + bytes_left > XLOG_SEG_SIZE
    THEN XLOG_SEG_SIZE - xlogoff
    ELSE bytes_left

\* blockstart after n more bytes; xrecoff is a uint32
AdvanceBlockstart(bs, n) ==
    [xlogid |-> bs.xlogid, xrecoff |-> U32Add(bs.xrecoff, n)]

\* "Did we reach the end of a WAL segment?"
AtSegmentEnd(bs) == U32ModSeg(bs.xrecoff) = 0

\* the offset within the segment a block header announces
BlockOffset(bs) == U32ModSeg(bs.xrecoff)

\* mutants: the verification skipped while a file is open / while none is
OffsetAccepted_OpenUnchecked(off) ==
    IF walfile = -1 THEN off = 0 ELSE TRUE

OffsetAccepted_ClosedUnchecked(off) ==
    IF walfile = -1 THEN TRUE ELSE walpos = off

\* the verification of the announced offset against where the receiver is
OffsetAccepted(off) ==
    IF walfile = -1 THEN off = 0 ELSE walpos = off

\* the blocks a server can send: a log file holds XLogSegsPerFile segments,
\* so every byte of a block lies below segment XLogSegsPerFile of its log file
ValidBlock(bs, payload) ==
    bs.xrecoff.hi + (bs.xrecoff.lo + payload - 1) \div XLOG_SEG_SIZE
       < XLogSegsPerFile

\* positions a test stream announces and payload sizes it carries
WalXlogids == {ToU32(7)}

WalOffsets == {U32(0, 0), U32(0, 1), U32(0, XLOG_SEG_SIZE \div 2), U32(1, 0),
               U32(254, 0)}

WalPayloads == {1, XLOG_SEG_SIZE \div 2, XLOG_SEG_SIZE,
                XLOG_SEG_SIZE + XLOG_SEG_SIZE \div 2}

WalTimelines == {ToU32(1)}

\* directories the receiver may be started in
WalInitialDirs ==
    { <<>>,
      (XLogFileName(ToU32(1), ToU32(7), ToU32(1)) :> [len |-> XLOG_SEG_SIZE, synced |-> TRUE]) }

InitWal ==
    /\ IdleXlog
    /\ IdleSendFile
    /\ IdleSender
    /\ IdleClient
    /\ wpc = "start"
    /\ timeline \in WalTimelines
    /\ startpos \in [xlogid : WalXlogids, xrecoff : {U32(0, 0), U32(254, 0)}]
    /\ segment_finish \in {"NULL", "callback"}
    /\ waldir \in WalInitialDirs
    /\ walfile = -1
    /\ walname = NoName
    /\ walpos = 0
    /\ blockstart = startpos
    /\ xlogoff = 0
    /\ bytes_left = 0
    /\ bytes_written = 0
    /\ wmsgs = 0
    /\ wevents = <<>>

\* START_REPLICATION: the server answers copy-both, or anything else
StartReplication ==
    /\ wpc = "start"
    /\ \E ok \in BOOLEAN :
          wpc' = IF ok THEN "recv" ELSE "retFalse"
    /\ UNCHANGED <<timeline, startpos, segment_finish, waldir, walfile, walname,
                   walpos, blockstart, xlogoff, bytes_left, bytes_written,
                   wmsgs, wevents>>
    /\ WalFrame

\* PQgetCopyData returned -1; PQgetResult decides the return value
RecvEndOfCopy ==
    /\ wpc = "recv"
    /\ \E commandOk \in BOOLEAN :
          wpc' = IF commandOk THEN "retTrue" ELSE "retFalse"
    /\ UNCHANGED <<timeline, startpos, segment_finish, waldir, walfile, walname,
                   walpos, blockstart, xlogoff, bytes_left, bytes_written,
                   wmsgs, wevents>>
    /\ WalFrame

\* 'w', the first byte of a WAL data message
CHAR_w == 119

\* mutant: a message of the header alone is taken
HeaderTooSmall_HeaderOnly(r) == r < STREAMING_HEADER_SIZE

\* r < STREAMING_HEADER_SIZE + 1: "streaming header too small"
HeaderTooSmall(r) == r < STREAMING_HEADER_SIZE + 1

\* copybuf[0] != 'w': "streaming header corrupt"
HeaderCorrupt(first) == first # CHAR_w

\* the lengths and first bytes of the messages that may be refused; -2 is
\* PQgetCopyData's read error
WalRefusedSizes == {-2, STREAMING_HEADER_SIZE, STREAMING_HEADER_SIZE + 1}

\* 'w' and another first byte
WalFirstBytes == {CHAR_w, CHAR_w + 1}

\* PQgetCopyData returned -2, a message shorter than the header plus one byte,
\* or a message whose first byte is not 'w'
RecvRejected ==
    /\ wpc = "recv"
    /\ wmsgs < MaxWalMsgs
    /\ \E r \in WalRefusedSizes, first \in WalFirstBytes :
          /\ r = -2 => first = CHAR_w
          /\ r = -2 \/ HeaderTooSmall(r) \/ HeaderCorrupt(first)
          /\ wevents' = Append(wevents,
                [ev |-> "reject",
                 why |-> IF r = -2 THEN "readError"
                         ELSE IF HeaderTooSmall(r) THEN "tooSmall"
                         ELSE "notW",
                 r |-> r, first |-> first])
    /\ wpc' = "retFalse"
    /\ wmsgs' = wmsgs + 1
    /\ UNCHANGED <<timeline, startpos, segment_finish, waldir, walfile, walname,
                   walpos, blockstart, xlogoff, bytes_left, bytes_written>>
    /\ WalFrame

\* a well-formed 'w' message: header with the block's start, then payload
RecvBlock ==
    /\ wpc = "recv"
    /\ wmsgs < MaxWalMsgs
    /\ \E bs \in [xlogid : WalXlogids \cup {blockstart.xlogid},
                  xrecoff : WalOffsets \cup {blockstart.xrecoff}],
          payload \in WalPayloads \cup {0} :
          LET r == STREAMING_HEADER_SIZE + payload
              off == BlockOffset(bs)
          IN  /\ ValidBlock(bs, payload)
              /\ ~HeaderTooSmall(r)
              /\ blockstart' = bs
              /\ xlogoff' = off
              /\ IF OffsetAccepted(off)
                 THEN /\ bytes_left' = r - STREAMING_HEADER_SIZE
                      /\ bytes_written' = 0
                      /\ wpc' = IF r - STREAMING_HEADER_SIZE = 0 THEN "recv"
                                ELSE "write"
                      /\ wevents' = Append(wevents,
                            [ev |-> "block", bs |-> bs, n |-> payload])
                 ELSE /\ wpc' = "retFalse"
                      /\ wevents' = Append(wevents,
                            [ev |-> "mismatch", bs |-> bs, n |-> payload])
                      /\ UNCHANGED <<bytes_left, bytes_written>>
    /\ wmsgs' = wmsgs + 1
    /\ UNCHANGED <<timeline, startpos, segment_finish, waldir, walfile, walname,
                   walpos>>
    /\ WalFrame

\* one round of the inner loop fails: the segment cannot be created
WriteOpenFails ==
    /\ wpc = "write"
    /\ walfile = -1
    /\ ~OpenWalfileOk(blockstart, timeline)
    /\ walname' = WalFileNameFor(blockstart, timeline)
    /\ wevents' = Append(wevents,
          [ev |-> "openfail", name |-> WalFileNameFor(blockstart, timeline)])
    /\ wpc' = "retFalse"
    /\ UNCHANGED <<timeline, startpos, segment_finish, waldir, walfile, walpos,
                   blockstart, xlogoff, bytes_left, bytes_written, wmsgs>>
    /\ WalFrame

\* the file the round writes to, its name, and the events of opening it
RoundOpens == walfile = -1

RoundName == IF RoundOpens THEN WalFileNameFor(blockstart, timeline) ELSE walname

RoundPos == IF RoundOpens THEN 0 ELSE walpos

RoundDir ==
    IF RoundOpens
    THEN (RoundName :> [len |-> 0, synced |-> FALSE]) @@ waldir
    ELSE waldir

RoundOpenEvents ==
    IF RoundOpens THEN <<[ev |-> "open", name |-> RoundName]>> ELSE <<>>

\* write(fd, buf, n) storing k bytes at the descriptor's position
DirAfterWrite(dir, name, pos, k) ==
    IF k = 0 THEN dir
    ELSE [dir EXCEPT ![name] = [len |-> Max(@.len, pos + k), synced |-> FALSE]]

WriteEvents(name, pos, k) ==
    IF k = 0 THEN <<>>
    ELSE <<[ev |-> "write", name |-> name, off |-> pos, n |-> k,
            lsn |-> blockstart]>>

\* one round of the inner loop in which write() stores fewer bytes than asked
WriteFails ==
    /\ wpc = "write"
    /\ RoundOpens => OpenWalfileOk(blockstart, timeline)
    /\ \E k \in {0, BytesToWrite \div 2} :
          /\ waldir' = DirAfterWrite(RoundDir, RoundName, RoundPos, k)
          /\ walpos' = RoundPos + k
          /\ wevents' = wevents \o RoundOpenEvents
                          \o WriteEvents(RoundName, RoundPos, k)
                          \o <<[ev |-> "writefail", name |-> RoundName]>>
    /\ walfile' = 3
    /\ walname' = RoundName
    /\ wpc' = "retFalse"
    /\ UNCHANGED <<timeline, startpos, segment_finish, blockstart, xlogoff,
                   bytes_left, bytes_written, wmsgs>>
    /\ WalFrame

\* "."
Str_dot == <<46>>

\* ".."
Str_dotdot == <<46, 46>>

\* ".partial"
Str_partial == <<46, 112, 97, 114, 116, 105, 97, 108>>

\* v - 1 in uint32 arithmetic
U32Dec(v) ==
    IF v.lo > 0 THEN U32(v.hi, v.lo - 1)
    ELSE U32((v.hi + SegsPerUint32 - 1) % SegsPerUint32, XLOG_SEG_SIZE - 1)

\* mutant: the position is used as it was given
PrevLogSeg_Unchanged(lsn) == lsn

\* PrevLogSeg(logId, logSeg), applied by segment_callback to the two words
\* of the position it is given
PrevLogSeg(lsn) ==
    IF lsn.xrecoff # ToU32(0)
    THEN [xlogid |-> lsn.xlogid, xrecoff |-> U32Dec(lsn.xrecoff)]
    ELSE [xlogid |-> U32Dec(lsn.xlogid), xrecoff |-> ToU32(XLogSegsPerFile - 1)]

\* the name segment_callback(segendpos, tli) looks for and unlinks
PartialNameFor(segendpos, tli) ==
    WalFileNameFor(PrevLogSeg(segendpos), tli) \o Str_partial

\* unlink(fn) when stat(fn) found it
Unlinked(dir, name) == [n \in DOMAIN dir \ {name} |-> dir[n]]

\* the directory after segment_finish(segendpos, tli): pg_receivexlog's
\* segment_callback removes the partial file of the segment
AfterSegmentFinish(dir, segendpos, tli) ==
    IF segment_finish = "segment_callback"
    THEN Unlinked(dir, PartialNameFor(segendpos, tli))
    ELSE dir

\* what segment_finish may return: a callback of any kind tells to stop or
\* not, segment_callback never does
SegmentFinishStops ==
    IF segment_finish = "callback" THEN BOOLEAN ELSE {FALSE}

\* one round of the inner loop: open if needed, write up to the boundary,
\* advance, and at a segment end fsync, close and call back
WriteRound ==
    /\ wpc = "write"
    /\ RoundOpens => OpenWalfileOk(blockstart, timeline)
    /\ LET n == BytesToWrite
           bs == AdvanceBlockstart(blockstart, n)
           written == DirAfterWrite(RoundDir, RoundName, RoundPos, n)
           evs == wevents \o RoundOpenEvents \o WriteEvents(RoundName, RoundPos, n)
       IN  /\ blockstart' = bs
           /\ bytes_written' = bytes_written + n
           /\ bytes_left' = bytes_left - n
           /\ walname' = RoundName
           /\ IF AtSegmentEnd(bs)
              THEN /\ waldir' = AfterSegmentFinish(
                                     [written EXCEPT ![RoundName].synced = TRUE],
                                     bs, timeline)
                   /\ walfile' = -1
                   /\ walpos' = 0
                   /\ xlogoff' = 0
                   /\ \E stop \in SegmentFinishStops :
                         /\ wevents' = evs
                               \o <<[ev |-> "fsync", name |-> RoundName],
                                    [ev |-> "close", name |-> RoundName]>>
                               \o (IF segment_finish = "NULL" THEN <<>>
                                   ELSE <<[ev |-> "finish", lsn |-> bs,
                                           tli |-> timeline]>>)
                         /\ wpc' = IF stop THEN "retTrue"
                                   ELSE IF bytes_left - n = 0 THEN "recv"
                                   ELSE "write"
              ELSE /\ waldir' = written
                   /\ walfile' = 3
                   /\ walpos' = RoundPos + n
                   /\ xlogoff' = xlogoff + n
                   /\ wevents' = evs
                   /\ wpc' = IF bytes_left - n = 0 THEN "recv" ELSE "write"
    /\ UNCHANGED <<timeline, startpos, segment_finish, wmsgs>>
    /\ WalFrame

NextWal ==
    \/ StartReplication
    \/ RecvEndOfCopy
    \/ RecvRejected
    \/ RecvBlock
    \/ WriteOpenFails
    \/ WriteFails
    \/ WriteRound



(***************************************************************************)
(* pg_receivexlog.c: main, StreamLog and FindStreamingStart.  The files of *)
(* basedir are not changed by anyone else while FindStreamingStart reads   *)
(* the directory, so that stat finds every name readdir returned.          *)
(***************************************************************************)
XLogRecPtr(xlogid, xrecoff) == [xlogid |-> xlogid, xrecoff |-> xrecoff]

\* a < b for uint32 values
U32Less(a, b) == a.hi < b.hi \/ (a.hi = b.hi /\ a.lo < b.lo)

\* v * XLOG_SEG_SIZE in uint32 arithmetic
U32MulSeg(v) == U32(v.lo % SegsPerUint32, 0)

\* v - n for n <= v % XLOG_SEG_SIZE
U32SubLow(v, n) == U32(v.hi, v.lo - n)

\* "Filenames are always made out of 0-9 and A-F"
IsXlogDigit(c) == (c >= 48 /\ c <= 57) \/ (c >= 65 /\ c <= 70)

\* "xlog files are always 24 characters", all of them such digits
LooksLikeXlog(name) ==
    /\ Len(name) = 24
    /\ \A i \in 1..24 : IsXlogDigit(name[i])

\* the value of one hexadecimal digit, and of the n digits after s[from]
HexValue(c) == IF c <= 57 THEN c - 48 ELSE c - 55

RECURSIVE HexNumber(_, _, _)
HexNumber(s, from, n) ==
    IF n = 0 THEN 0
    ELSE HexNumber(s, from, n - 1) * 16 + HexValue(s[from + n])

\* what sscanf's %08X reads from the eight digits after s[from]
ScanHex8(s, from) == U32(HexNumber(s, from, 2), HexNumber(s, from + 2, 6))

\* sscanf(d_name, "%08X%08X%08X", &tli, &log, &seg); log *= XLOG_SEG_SIZE
ScanXlogName(name) ==
    [tli |-> ScanHex8(name, 0),
     log |-> U32MulSeg(ScanHex8(name, 8)),
     seg |-> ScanHex8(name, 16)]

\* mutant: no file is taken for a completed segment
CompletedSize_Never(len) == FALSE

\* statbuf.st_size == 16 * 1024 * 1024
CompletedSize(len) == len = 16 * 1024 * 1024

\* rename(fullpath, newfn)
Renamed(dir, name, newname) ==
    [n \in (DOMAIN dir \ {name}) \cup {newname} |->
        IF n = newname THEN dir[name] ELSE dir[n]]

\* mutant: the position is used as FindStreamingStart returned it
SegmentStart_Unrounded(pos) == pos

\* startpos.xrecoff -= startpos.xrecoff % XLOG_SEG_SIZE
SegmentStart(pos) ==
    XLogRecPtr(pos.xlogid, U32SubLow(pos.xrecoff, U32ModSeg(pos.xrecoff)))

\* "if (high.xlogid > 0 && high.xrecoff > 0) return high; return currentpos;"
StreamingStart(high, currentpos) ==
    IF U32Less(ToU32(0), high.xlogid) /\ U32Less(ToU32(0), high.xrecoff)
    THEN high
    ELSE currentpos

\* disconnect_and_exit(1)
DisconnectAndExit ==
    /\ xpc' = "exited"
    /\ xexit' = 1

\* what the steps of pg_receivexlog outside ReceiveXlogStream leave alone
XlogFrame ==
    /\ UNCHANGED <<segment_finish, walfile, walname, walpos, xlogoff,
                   bytes_left, bytes_written, wmsgs, wevents, xorder>>
    /\ UNCHANGED <<sfVars, sbVars, rcvVars>>

\* the files a target directory may hold: names and lengths
XlogName(tli, log, seg) == XLogFileName(ToU32(tli), ToU32(log), ToU32(seg))

WholeSegment == [len |-> XLOG_SEG_SIZE, synced |-> TRUE]

PartSegment(len) == [len |-> len, synced |-> FALSE]

XlogDirs ==
    { <<>>,
      (XlogName(1, 7, 1) :> WholeSegment),
      (XlogName(1, 7, 0) :> WholeSegment),
      (XlogName(1, 0, 2) :> WholeSegment),
      (XlogName(1, 7, 1) :> WholeSegment) @@ (XlogName(1, 7, 3) :> WholeSegment)
          @@ (XlogName(2, 7, 5) :> WholeSegment),
      (XlogName(1, 7, 2) :> PartSegment(5)) @@ (XlogName(1, 7, 1) :> WholeSegment),
      (XlogName(1, 7, 1) :> PartSegment(5)) @@ (XlogName(1, 7, 3) :> PartSegment(0)),
      (XlogName(1, 7, 2) :> PartSegment(5))
          @@ (XlogName(1, 7, 2) \o Str_partial :> PartSegment(9)),
      ([XlogName(1, 7, 4) EXCEPT ![24] = 97] :> WholeSegment)
          @@ (Tail(XlogName(1, 7, 4)) :> PartSegment(5))
          @@ (XlogName(2, 7, 2) :> PartSegment(5)) }

\* the positions IDENTIFY_SYSTEM may report
XlogServerPositions ==
    { XLogRecPtr(ToU32(7), U32(0, 0)), XLogRecPtr(ToU32(7), U32(1, 16)) }

\* the orders in which readdir may return the names of dir
ReaddirOrders(dir) ==
    { <<Str_dot, Str_dotdot>> \o order :
        order \in { f \in [1..Cardinality(DOMAIN dir) -> DOMAIN dir] :
                      \A i, j \in 1..Cardinality(DOMAIN dir) :
                          f[i] = f[j] => i = j } }

InitReceiveXlog ==
    /\ IdleSendFile
    /\ IdleSender
    /\ IdleClient
    /\ wpc = "idle"
    /\ timeline = ToU32(0)
    /\ startpos = XLogRecPtr(ToU32(0), ToU32(0))
    /\ segment_finish = "segment_callback"
    /\ waldir \in XlogDirs
    /\ walfile = -1
    /\ walname = NoName
    /\ walpos = 0
    /\ blockstart = startpos
    /\ xlogoff = 0
    /\ bytes_left = 0
    /\ bytes_written = 0
    /\ wmsgs = 0
    /\ wevents = <<>>
    /\ xpc = "identify"
    /\ xexit = -1
    /\ xcurrentpos = XLogRecPtr(ToU32(0), ToU32(0))
    /\ xorder \in ReaddirOrders(waldir)
    /\ xde = 0
    /\ xhigh = XLogRecPtr(ToU32(0), ToU32(0))
    /\ xfound = XLogRecPtr(ToU32(0), ToU32(0))

\* StreamLog: IDENTIFY_SYSTEM gives the timeline and the current position
StreamLog_Identify ==
    /\ xpc = "identify"
    /\ \E identified \in BOOLEAN :
          IF identified
          THEN /\ timeline' \in WalTimelines
               /\ xcurrentpos' \in XlogServerPositions
               /\ xpc' = "opendir"
               /\ UNCHANGED xexit
          ELSE /\ DisconnectAndExit
               /\ UNCHANGED <<timeline, xcurrentpos>>
    /\ UNCHANGED <<wpc, startpos, blockstart, waldir, xde, xhigh, xfound>>
    /\ XlogFrame

\* FindStreamingStart: high = {0,0}; dir = opendir(basedir)
FindStreamingStart_Opendir ==
    /\ xpc = "opendir"
    /\ \E opened \in BOOLEAN :
          IF opened
          THEN /\ xpc' = "readdir"
               /\ UNCHANGED xexit
          ELSE DisconnectAndExit
    /\ xhigh' = XLogRecPtr(ToU32(0), ToU32(0))
    /\ xde' = 0
    /\ UNCHANGED <<wpc, timeline, startpos, blockstart, waldir, xcurrentpos, xfound>>
    /\ XlogFrame

\* FindStreamingStart: one round of the readdir loop
FindStreamingStart_Readdir ==
    /\ xpc = "readdir"
    /\ xde < Len(xorder)
    /\ xde' = xde + 1
    /\ LET d_name == xorder[xde + 1]
           scanned == ScanXlogName(d_name)
           newfn == d_name \o Str_partial
       IN  IF d_name = Str_dot \/ d_name = Str_dotdot \/ ~LooksLikeXlog(d_name)
           THEN UNCHANGED <<xpc, xexit, xhigh, waldir>>
           ELSE IF scanned.tli # timeline
           THEN UNCHANGED <<xpc, xexit, xhigh, waldir>>
           ELSE IF CompletedSize(waldir[d_name].len)
           THEN /\ xhigh' =
                     IF \/ U32Less(xhigh.xlogid, scanned.log)
                        \/ /\ scanned.log = xhigh.xlogid
                           /\ U32Less(xhigh.xrecoff, scanned.seg)
                     THEN XLogRecPtr(scanned.log, scanned.seg)
                     ELSE xhigh
                /\ UNCHANGED <<xpc, xexit, waldir>>
           ELSE IF newfn \in DOMAIN waldir
           THEN /\ DisconnectAndExit
                /\ UNCHANGED <<xhigh, waldir>>
           ELSE \E renamed \in BOOLEAN :
                   IF renamed
                   THEN /\ waldir' = Renamed(waldir, d_name, newfn)
                        /\ xpc' = "closedir"
                        /\ UNCHANGED <<xexit, xhigh>>
                   ELSE /\ DisconnectAndExit
                        /\ UNCHANGED <<xhigh, waldir>>
    /\ UNCHANGED <<wpc, timeline, startpos, blockstart, xcurrentpos, xfound>>
    /\ XlogFrame

\* FindStreamingStart: closedir, and the position returned
FindStreamingStart_Return ==
    /\ \/ xpc = "closedir"
       \/ xpc = "readdir" /\ xde = Len(xorder)
    /\ xfound' = StreamingStart(xhigh, xcurrentpos)
    /\ xpc' = "found"
    /\ UNCHANGED <<wpc, timeline, startpos, blockstart, waldir, xexit,
                   xcurrentpos, xde, xhigh>>
    /\ XlogFrame

\* StreamLog: the position is rounded and ReceiveXlogStream is called with
\* segment_callback
StreamLog_Stream ==
    /\ xpc = "found"
    /\ startpos' = SegmentStart(xfound)
    /\ blockstart' = startpos'
    /\ wpc' = "start"
    /\ xpc' = "streaming"
    /\ UNCHANGED <<timeline, waldir, xexit, xcurrentpos, xde, xhigh, xfound>>
    /\ XlogFrame

\* ReceiveXlogStream has returned: StreamLog returns and main calls exit(0)
Main_Exit ==
    /\ xpc = "streaming"
    /\ wpc \in {"retTrue", "retFalse"}
    /\ xpc' = "exited"
    /\ xexit' = 0
    /\ UNCHANGED <<wpc, timeline, startpos, blockstart, waldir, xcurrentpos,
                   xde, xhigh, xfound>>
    /\ XlogFrame

NextReceiveXlog ==
    \/ StreamLog_Identify
    \/ FindStreamingStart_Opendir
    \/ FindStreamingStart_Readdir
    \/ FindStreamingStart_Return
    \/ StreamLog_Stream
    \/ Main_Exit
    \/ StartReplication
    \/ RecvEndOfCopy
    \/ RecvRejected
    \/ RecvBlock
    \/ WriteOpenFails
    \/ WriteFails
    \/ WriteRound

SpecReceiveXlog == InitReceiveXlog /\ [][NextReceiveXlog]_vars

(***************************************************************************)
(* basebackup.c: the tar format                                            *)
(***************************************************************************)
\* sizeof(buf) in sendFile
SENDFILE_BUFSIZE == 32768

TAR_BLOCK == 512

\* MAX_TAR_MEMBER_FILELEN is 2^33 - 1 = MAX_TAR_MEMBER_HI * OFF_BASE - 1
MAX_TAR_MEMBER_HI == 8

\* S_IFMT and the file types of st_mode
S_IFMT_DIV == 4096
S_IFDIR == 4
S_IFREG == 8
S_IFLNK == 10

FileType(st_mode) == (st_mode \div S_IFMT_DIV) % 16

S_ISDIR(st_mode) == FileType(st_mode) = S_IFDIR

S_ISREG(st_mode) == FileType(st_mode) = S_IFREG

S_ISLNK(st_mode) == FileType(st_mode) = S_IFLNK

\* character codes
NUL == 0
SPACE == 32
DOT == 46
SLASH == 47
DIGIT0 == 48
UNDERSCORE == 95

Str_ustar00 == <<117, 115, 116, 97, 114, 48, 48>>
Str_postgres == <<112, 111, 115, 116, 103, 114, 101, 115>>

\* the first n characters of s
Prefix(s, n) == SubSeq(s, 1, Min(n, Len(s)))

\* print_val(s, val, base, len): len digits of the uint64 val, filled with
\* zeros (OFF_BASE is a power of the base)
print_val(val, base, len) ==
    [i \in 1..len |->
        LET p == Pow(base, len - i)
        IN  DIGIT0 + (IF p >= OFF_BASE
                      THEN (val.hi \div (p \div OFF_BASE)) % base
                      ELSE (val.lo \div p) % base)]

\* the digits of val in base 8, at least one
RECURSIVE OctalDigits(_)
OctalDigits(val) ==
    IF val < 8 THEN <<DIGIT0 + val>>
    ELSE OctalDigits(val \div 8) \o <<DIGIT0 + (val % 8)>>

\* printf's %0<w>o and %<w>o: w is the minimum width
FmtOctalZero(val, w) ==
    LET d == OctalDigits(val)
    IN  [i \in 1..Max(0, w - Len(d)) |-> DIGIT0] \o d

FmtOctalBlank(val, w) ==
    LET d == OctalDigits(val)
    IN  [i \in 1..Max(0, w - Len(d)) |-> SPACE] \o d

\* a header block; C's h[k] is h[k + 1] here
ZeroBlock == [i \in 1..TAR_BLOCK |-> NUL]

\* memory h with bytes stored from C offset off on
Poke(h, off, bytes) ==
    SubSeq(h, 1, off) \o bytes \o SubSeq(h, off + Len(bytes) + 1, Len(h))

\* sprintf(&h[off], ...): the characters and the terminating NUL
Sprintf(h, off, chars) == Poke(h, off, chars \o <<NUL>>)

\* the C string that starts at C offset off of h
RECURSIVE CStrFrom(_, _)
CStrFrom(h, off) ==
    IF off >= Len(h) \/ h[off + 1] = NUL THEN <<>>
    ELSE <<h[off + 1]>> \o CStrFrom(h, off + 1)

\* the sum of the bytes at C offsets from..to of h
RECURSIVE SumBytes(_, _, _)
SumBytes(h, from, to) ==
    IF from > to THEN 0
    ELSE IF from = to THEN h[from + 1]
    ELSE LET mid == (from + to) \div 2
         IN  SumBytes(h, from, mid) + SumBytes(h, mid + 1, to)

\* _tarChecksum: the checksum field [148..156) counts as eight blanks
_tarChecksum(h) == SumBytes(h, 0, 147) + SumBytes(h, 156, 511) + 256

\* mutant: the field is left as it was first written
ChecksumLoop_Skipped(h, lastSum) == h

\* the checksum loop of _tarWriteHeader, entered with lastSum
RECURSIVE ChecksumLoop(_, _)
ChecksumLoop(h, lastSum) ==
    LET sum == _tarChecksum(h)
    IN  IF sum # lastSum
        THEN ChecksumLoop(Sprintf(h, 148, FmtOctalZero(sum, 6) \o <<SPACE>>), sum)
        ELSE h

NoLink == <<-1>>

\* how often the checksum loop entered with lastSum evaluates _tarChecksum
RECURSIVE ChecksumEvaluations(_, _)
ChecksumEvaluations(h, lastSum) ==
    1 + The({ IF sum # lastSum
              THEN ChecksumEvaluations(
                      Sprintf(h, 148, FmtOctalZero(sum, 6) \o <<SPACE>>), sum)
              ELSE 0 : sum \in {_tarChecksum(h)} })

\* _tarWriteHeader(filename, linktarget, statbuf) up to its checksum loop:
\* the block h with its fields.  linktarget is NoLink for C's NULL.
_tarHeaderFields(filename, linktarget, statbuf) ==
    LET asDir == linktarget # NoLink \/ S_ISDIR(statbuf.st_mode)
        h0 == Sprintf(ZeroBlock, 0, Prefix(filename, 99))
        h1 == IF asDir
              THEN Poke(h0, Len(filename), <<SLASH, NUL>>)
              ELSE h0
        h2 == Sprintf(h1, 100, FmtOctalZero(statbuf.st_mode, 7) \o <<SPACE>>)
        h3 == Sprintf(h2, 108, FmtOctalZero(statbuf.st_uid, 7) \o <<SPACE>>)
        h4 == Sprintf(h3, 117, FmtOctalZero(statbuf.st_gid, 7) \o <<SPACE>>)
        h5 == Poke(h4, 124,
                   print_val(IF asDir THEN OffOfInt(0) ELSE statbuf.st_size, 8, 11))
        h6 == Sprintf(h5, 135, <<SPACE>>)
        h7 == Sprintf(h6, 136, FmtOctalZero(statbuf.st_mtime, 11) \o <<SPACE>>)
        h8 == Sprintf(h7, 148, FmtOctalZero(0, 6) \o <<SPACE>>)
        h9 == IF linktarget # NoLink
              THEN Sprintf(Sprintf(h8, 156, <<DIGIT0 + 2>>), 157, linktarget)
              ELSE IF S_ISDIR(statbuf.st_mode)
                   THEN Sprintf(h8, 156, <<DIGIT0 + 5>>)
                   ELSE Sprintf(h8, 156, <<DIGIT0>>)
        h10 == Sprintf(h9, 257, Str_ustar00)
        h11 == Sprintf(h10, 265, Prefix(Str_postgres, 31))
        h12 == Sprintf(h11, 297, Prefix(Str_postgres, 31))
        h13 == Sprintf(h12, 329, FmtOctalBlank(0, 6) \o <<SPACE>>)
    IN  Sprintf(h13, 337, FmtOctalBlank(0, 6) \o <<SPACE>>)

\* _tarWriteHeader(filename, linktarget, statbuf): the 512 bytes it sends
_tarWriteHeader(filename, linktarget, statbuf) ==
    ChecksumLoop(_tarHeaderFields(filename, linktarget, statbuf), 0)

(***************************************************************************)
(* Copy-data payloads.  A header travels as its bytes.  The bytes of a     *)
(* file body are not interpreted by either side, so a chunk of them is     *)
(* named by where it was read: n bytes of file src from offset off; a run  *)
(* of n zero bytes is named as such.                                       *)
(***************************************************************************)
BytesPayload(b) ==
    [kind |-> "bytes", bytes |-> b, src |-> <<>>, off |-> 0, n |-> Len(b)]

FilePayload(src, off, n) ==
    [kind |-> "file", bytes |-> <<>>, src |-> src, off |-> off, n |-> n]

ZeroPayload(n) ==
    [kind |-> "zero", bytes |-> <<>>, src |-> <<>>, off |-> 0, n |-> n]

\* pq_putmessage('d', buf, cnt)
CopyData(payload) == [type |-> "d", data |-> payload]

\* fread(buf, 1, want, fp) at position pos of a file that is actual bytes long
Fread(want, pos, actual) == Min(want, Max(0, actual - pos))

\* the lengths the file has at the freads after this one
LaterLens(lens) == IF Len(lens) > 1 THEN Tail(lens) ELSE lens

\* mutant: the read asks for a full buffer whatever is left of st_size
ReadRequest_FullBuffer(st_size, len) == SENDFILE_BUFSIZE

\* Min(sizeof(buf), statbuf->st_size - len)
ReadRequest(st_size, len) == Min(SENDFILE_BUFSIZE, st_size - len)

\* the fread loop of sendFile: the chunks it sends, from position len on, of a
\* file whose length at the k-th coming fread is lens[k] (the last one stays)
RECURSIVE ReadLoop(_, _, _, _)
ReadLoop(filename, st_size, len, lens) ==
    LET cnt == Fread(ReadRequest(st_size, len), len, Head(lens))
    IN  IF cnt > 0
        THEN <<CopyData(FilePayload(filename, len, cnt))>>
             \o (IF len + cnt >= st_size THEN <<>>
                 ELSE ReadLoop(filename, st_size, len + cnt, LaterLens(lens)))
        ELSE <<>>

RECURSIVE PayloadBytes(_)
PayloadBytes(msgs) ==
    IF msgs = <<>> THEN 0 ELSE Head(msgs).data.n + PayloadBytes(Tail(msgs))

\* "If the file was truncated while we were sending it, pad it with zeros"
RECURSIVE TruncationFill(_, _)
TruncationFill(st_size, len) ==
    IF len < st_size
    THEN LET cnt == Min(SENDFILE_BUFSIZE, st_size - len)
         IN  <<CopyData(ZeroPayload(cnt))>> \o TruncationFill(st_size, len + cnt)
    ELSE <<>>

\* ((len + 511) & ~511) - len
TarPadding(len) == ((len + 511) \div TAR_BLOCK) * TAR_BLOCK - len

\* mutant: a padding message is sent whatever its length
BlockPadding_Unconditional(len) == <<CopyData(ZeroPayload(TarPadding(len)))>>

\* "Pad to 512 byte boundary, per tar format requirements"
BlockPadding(len) ==
    IF TarPadding(len) > 0 THEN <<CopyData(ZeroPayload(TarPadding(len)))>> ELSE <<>>

\* mutant: sizes up to 2^33 + 2^30 - 1 pass
TooLargeForTar_Late(st_size) == st_size.hi > MAX_TAR_MEMBER_HI

\* statbuf->st_size > MAX_TAR_MEMBER_FILELEN
TooLargeForTar(st_size) == st_size.hi >= MAX_TAR_MEMBER_HI

\* sendFile(filename, statbuf) on a file that AllocateFile can open or not and
\* whose length at the k-th fread is lens[k]: whether it raised an error, and
\* the messages it sent
sendFile(filename, statbuf, openable, lens) ==
    IF ~openable \/ TooLargeForTar(statbuf.st_size)
    THEN [err |-> TRUE, msgs |-> <<>>]
    ELSE LET header == CopyData(BytesPayload(_tarWriteHeader(filename, NoLink, statbuf)))
             body == ReadLoop(filename, OffInt(statbuf.st_size), 0, lens)
             fill == TruncationFill(OffInt(statbuf.st_size), PayloadBytes(body))
             len == PayloadBytes(body) + PayloadBytes(fill)
         IN  [err |-> FALSE,
              msgs |-> <<header>> \o body \o fill \o BlockPadding(len)]

\* sendFile up to the header: the error it raises, or the header it sends
sendFile_Start(filename, statbuf, openable) ==
    IF ~openable \/ TooLargeForTar(statbuf.st_size)
    THEN [err |-> TRUE, msgs |-> <<>>]
    ELSE [err |-> FALSE,
          msgs |-> <<CopyData(BytesPayload(
                        _tarWriteHeader(filename, NoLink, statbuf)))>>]

\* "x"
Str_x == <<120>>

(***************************************************************************)
(* sendFile applied to a regular file that shrinks and grows under it.     *)
(***************************************************************************)

\* declared sizes and lengths the file may have at a read
SendFileSizes == {0, 1, 511, 512, 513, 1000, 32768, 32769, 70000}

SendFileLens == {0, 600, 32768, 40000, 80000}

\* number of times the file's length changes during the call
MaxLenChanges == 2

RegularStat(size) ==
    [st_mode |-> 33152, st_uid |-> 1000, st_gid |-> 1000,
     st_size |-> OffOfInt(size), st_mtime |-> 1300000000]

LenHistories ==
    UNION { [1..k -> SendFileLens] : k \in 1..(MaxLenChanges + 1) }

InitSendFile ==
    /\ IdleWal
    /\ IdleXlog
    /\ IdleSender
    /\ IdleClient
    /\ sf_pc = "call"
    /\ sf_in \in [size : SendFileSizes, lens : LenHistories, openable : BOOLEAN]
    /\ sf_out = [err |-> FALSE, msgs |-> <<>>]

CallSendFile ==
    /\ sf_pc = "call"
    /\ sf_pc' = "returned"
    /\ sf_out' = sendFile(Str_x, RegularStat(sf_in.size), sf_in.openable, sf_in.lens)
    /\ UNCHANGED sf_in
    /\ SendFileFrame

NextSendFile == CallSendFile

SpecSendFile == InitSendFile /\ [][NextSendFile]_vars

(***************************************************************************)
(* _tarWriteHeader applied to names of any length, to directories, links   *)
(* and regular files, to small and large owners and sizes; and sendFile    *)
(* up to the header, for sizes around MAX_TAR_MEMBER_FILELEN.              *)
(***************************************************************************)
\* "./aaa...", n characters long
NameOfLength(n) ==
    [i \in 1..n |-> IF i = 1 THEN DOT ELSE IF i = 2 THEN SLASH ELSE 97]

HeaderNameLengths == {3, 98, 99, 100, 101, 200}

\* "/srv/ts1"
Str_linktarget == <<47, 115, 114, 118, 47, 116, 115, 49>>

\* st_mode of a directory (040700), a regular file (0100600), a link (0120777)
HeaderModes == {16832, 33152, 41471}

\* owners: the last that fits seven octal digits, the first that does not
HeaderOwners == {0, 1000, 2097151, 2097152}

HeaderGroups == {0, 1000, 2097152}

\* sizes: 2^30 - 1, 2^30, 2^33 - 1, 2^33 and above
HeaderSizes ==
    { OffOfInt(0), OffOfInt(9), Off(0, OFF_BASE - 1), Off(1, 0),
      Off(MAX_TAR_MEMBER_HI - 1, OFF_BASE - 1), Off(MAX_TAR_MEMBER_HI, 0),
      Off(MAX_TAR_MEMBER_HI, 5), Off(100, 0) }

\* the arguments of a call
HeaderStat(in) ==
    [st_mode |-> in.mode, st_uid |-> in.uid, st_gid |-> in.gid,
     st_size |-> in.size, st_mtime |-> 1300000000]

HeaderLink(in) == IF S_ISLNK(in.mode) THEN Str_linktarget ELSE NoLink

InitTarHeader ==
    /\ IdleWal
    /\ IdleXlog
    /\ IdleSender
    /\ IdleClient
    /\ sf_pc = "call"
    /\ sf_in \in [len : HeaderNameLengths, mode : HeaderModes,
                  uid : HeaderOwners, gid : HeaderGroups, size : HeaderSizes,
                  openable : BOOLEAN]
    /\ sf_out = [err |-> FALSE, msgs |-> <<>>]

\* _tarWriteHeader(filename, linktarget, statbuf)
CallTarWriteHeader ==
    /\ sf_pc = "call"
    /\ sf_in.openable
    /\ sf_pc' = "header"
    /\ sf_out' = [err |-> FALSE,
                  msgs |-> <<CopyData(BytesPayload(
                                _tarWriteHeader(NameOfLength(sf_in.len),
                                                HeaderLink(sf_in),
                                                HeaderStat(sf_in))))>>]
    /\ UNCHANGED sf_in
    /\ SendFileFrame

\* sendFile(filename, statbuf) up to the header
CallSendFileStart ==
    /\ sf_pc = "call"
    /\ S_ISREG(sf_in.mode)
    /\ sf_pc' = "started"
    /\ sf_out' = sendFile_Start(NameOfLength(sf_in.len), HeaderStat(sf_in),
                                sf_in.openable)
    /\ UNCHANGED sf_in
    /\ SendFileFrame

NextTarHeader ==
    \/ CallTarWriteHeader
    \/ CallSendFileStart

SpecTarHeader == InitTarHeader /\ [][NextTarHeader]_vars


SpecWal == InitWal /\ [][NextWal]_vars

(***************************************************************************)
(* basebackup.c: the walk of a directory tree and the batch of one storage *)
(* location.                                                               *)
(***************************************************************************)
\* "d"
Str_d == <<100>>

\* "y"
Str_y == <<121>>

\* "f"
Str_f == <<102>>

\* "s"
Str_s == <<115>>

\* "l"
Str_l == <<108>>

\* "gone"
Str_gone == <<103, 111, 110, 101>>

\* "w"
Str_w == <<119>>

\* "pg_xlog"
Str_pg_xlog == <<112, 103, 95, 120, 108, 111, 103>>

\* "postmaster.pid"
Str_postmaster_pid == <<112, 111, 115, 116, 109, 97, 115, 116, 101, 114, 46, 112, 105, 100>>

\* "pg_tblspc"
Str_pg_tblspc == <<112, 103, 95, 116, 98, 108, 115, 112, 99>>

\* "./pg_xlog"
Str_dot_pg_xlog == <<46, 47, 112, 103, 95, 120, 108, 111, 103>>

\* "./postmaster.pid"
Str_dot_postmaster_pid == <<46, 47, 112, 111, 115, 116, 109, 97, 115, 116, 101, 114, 46, 112, 105, 100>>

\* "./pg_tblspc"
Str_dot_pg_tblspc == <<46, 47, 112, 103, 95, 116, 98, 108, 115, 112, 99>>

\* "/srv/ts"
Str_srv_ts == <<47, 115, 114, 118, 47, 116, 115>>

\* "/elsewhere"
Str_elsewhere == <<47, 101, 108, 115, 101, 119, 104, 101, 114, 101>>

\* snprintf(buf, MAXPGPATH, "%s/%s", a, b); the paths here are short
PathJoin(a, b) == a \o <<SLASH>> \o b

\* the characters of n in base 10, as printf's %d and INT64_FORMAT give them
RECURSIVE DecimalDigits(_)
DecimalDigits(n) ==
    IF n < 10 THEN <<DIGIT0 + n>>
    ELSE DecimalDigits(n \div 10) \o <<DIGIT0 + (n % 10)>>

IsDigit(c) == c >= DIGIT0 /\ c <= DIGIT0 + 9

\* atoi(s) of a string without sign or leading blanks: the leading digits
RECURSIVE AtoiFrom(_, _, _)
AtoiFrom(s, k, acc) ==
    IF k > Len(s) \/ ~IsDigit(s[k]) THEN acc
    ELSE AtoiFrom(s, k + 1, acc * 10 + (s[k] - DIGIT0))

atoi(s) == AtoiFrom(s, 1, 0)

\* pq_sendint(buf, n, 4): four bytes in network order
Int32Bytes(n) ==
    <<(n \div 16777216) % 256, (n \div 65536) % 256, (n \div 256) % 256, n % 256>>

(***************************************************************************)
(* What the server's file system answers.  sfs maps a path, as the code    *)
(* builds it, to [st_mode, st_uid, st_gid, st_size, st_mtime] of lstat,    *)
(* the names readdir returns for a directory in their order, whether       *)
(* AllocateDir / AllocateFile succeed on it, and what readlink gives.  A   *)
(* name that readdir returns and lstat does not find has gone away.        *)
(***************************************************************************)
LstatOk(fs, path) == path \in DOMAIN fs

\* AllocateDir(path) != NULL
AllocateDirOk(fs, path) ==
    /\ LstatOk(fs, path)
    /\ S_ISDIR(fs[path].st_mode)
    /\ fs[path].openable

\* readlink(path, linkpath, ...) != -1
ReadlinkOk(fs, path) ==
    /\ LstatOk(fs, path)
    /\ S_ISLNK(fs[path].st_mode)
    /\ fs[path].linkok

\* linkpath after MemSet and readlink: empty when readlink failed
Linkpath(fs, path) == IF ReadlinkOk(fs, path) THEN fs[path].link ELSE <<>>

NoWalk == [err |-> FALSE, size |-> OffOfInt(0), msgs |-> <<>>]

WalkError(msgs) == [err |-> TRUE, size |-> OffOfInt(0), msgs |-> msgs]

\* mutant: the header of a directory is sent after what is under it
DirMember_HeaderLast(header, sub) ==
    [err |-> sub.err, size |-> sub.size, msgs |-> sub.msgs \o header]

\* a directory entry of the walk: its header, then the walk of what is under it
DirMember(header, sub) ==
    [err |-> sub.err, size |-> sub.size, msgs |-> header \o sub.msgs]

\* mutant: the names are skipped in every directory
SkippedPath_AnyDirectory(pathbuf) ==
    \E dir \in {SubSeq(pathbuf, 1, n) : n \in 0..Len(pathbuf)} :
        \/ pathbuf = PathJoin(dir, Str_pg_xlog)
        \/ pathbuf = PathJoin(dir, Str_postmaster_pid)

\* "Skip pg_xlog and postmaster.pid"
SkippedPath(pathbuf) ==
    pathbuf = Str_dot_pg_xlog \/ pathbuf = Str_dot_postmaster_pid

\* mutant: a link is sent wherever it is found
AllowedLink_Anywhere(statbuf, path) == S_ISLNK(statbuf.st_mode)

\* "Allow symbolic links in pg_tblspc"
AllowedLink(statbuf, path) ==
    S_ISLNK(statbuf.st_mode) /\ path = Str_dot_pg_tblspc

RECURSIVE sendDir(_, _, _)
RECURSIVE sendDirFrom(_, _, _, _)

\* the body of sendDir's loop for the entry de->d_name = name of path:
\* whether an error was raised, the size counted, the messages sent
sendDirEntry(fs, path, name, sizeonly) ==
    LET pathbuf == PathJoin(path, name)
        statbuf == fs[pathbuf]
        header(linktarget) ==
            IF sizeonly THEN <<>>
            ELSE <<CopyData(BytesPayload(_tarWriteHeader(pathbuf, linktarget, statbuf)))>>
    IN  IF name = Str_dot \/ name = Str_dotdot THEN NoWalk
        ELSE IF SkippedPath(pathbuf) THEN NoWalk
        ELSE IF ~LstatOk(fs, pathbuf) THEN NoWalk
        ELSE IF AllowedLink(statbuf, path)
             THEN [NoWalk EXCEPT !.msgs = header(Linkpath(fs, pathbuf))]
        ELSE IF S_ISDIR(statbuf.st_mode)
             THEN The({ DirMember(header(NoLink), sub) :
                          sub \in {sendDir(fs, pathbuf, sizeonly)} })
        ELSE IF S_ISREG(statbuf.st_mode)
             THEN IF sizeonly
                  THEN [NoWalk EXCEPT !.size = statbuf.st_size]
                  ELSE The({ [err |-> sent.err, size |-> statbuf.st_size,
                               msgs |-> sent.msgs] :
                              sent \in {sendFile(pathbuf, statbuf, statbuf.openable,
                                                 statbuf.lens)} })
        ELSE NoWalk

\* one round of sendDir's loop, then the rounds after it unless it raised
WalkThen(this, rest) ==
    IF this.err THEN this
    ELSE [err |-> rest.err,
          size |-> OffAdd(this.size, rest.size),
          msgs |-> this.msgs \o rest.msgs]

\* sendDir's loop from the k-th name that ReadDir returns for path
sendDirFrom(fs, path, k, sizeonly) ==
    IF k > Len(fs[path].entries) THEN NoWalk
    ELSE The(UNION {
            { WalkThen(this, rest) :
                rest \in {IF this.err THEN NoWalk
                          ELSE sendDirFrom(fs, path, k + 1, sizeonly)} } :
            this \in {sendDirEntry(fs, path, fs[path].entries[k], sizeonly)} })

\* sendDir(path, sizeonly).  ReadDir raises the error when AllocateDir
\* returned NULL.
sendDir(fs, path, sizeonly) ==
    IF AllocateDirOk(fs, path)
    THEN sendDirFrom(fs, path, 1, sizeonly)
    ELSE WalkError(<<>>)

(***************************************************************************)
(* The messages of a batch.                                                *)
(***************************************************************************)
NoLocation == <<-1>>

FieldDescription(name, typeoid, typlen) ==
    [name |-> name, tableoid |-> 0, attnum |-> 0, typeoid |-> typeoid,
     typlen |-> typlen, typmod |-> 0, format |-> 0]

\* pq_beginmessage(&buf, 'T') ... pq_endmessage(&buf)
RowDescription ==
    [type |-> "T",
     data |-> [kind |-> "T", nfields |-> 3,
               fields |-> <<FieldDescription("spcoid", "OIDOID", 4),
                            FieldDescription("spclocation", "TEXTOID", -1),
                            FieldDescription("size", "INT8OID", 8)>>]]

\* a column of a data row: its length word and its bytes
NullColumn == [len |-> -1, val |-> <<>>]

Column(bytes) == [len |-> Len(bytes), val |-> bytes]

\* mutant: the location columns are always sent as values
LocationColumns_NeverNull(location, spcoid) ==
    <<Column(Int32Bytes(atoi(IF spcoid = NoLocation THEN <<>> ELSE spcoid))),
      Column(IF location = NoLocation THEN <<>> ELSE location)>>

\* the first two columns of the data row
LocationColumns(location, spcoid) ==
    IF location = NoLocation
    THEN <<NullColumn, NullColumn>>
    ELSE <<Column(Int32Bytes(atoi(spcoid))), Column(location)>>

\* send_int8_string(&buf, intval)
send_int8_string(intval) == Column(DecimalDigits(intval))

\* pq_beginmessage(&buf, 'D') ... pq_endmessage(&buf)
DataRow(location, spcoid, size) ==
    [type |-> "D",
     data |-> [kind |-> "D", ncols |-> 3,
               cols |-> LocationColumns(location, spcoid)
                          \o <<send_int8_string(OffDiv1024(size))>>]]

\* pq_puttextmessage('C', tag)
CommandComplete(tag) == [type |-> "C", data |-> [kind |-> "C", tag |-> tag]]

CopyOutResponse ==
    [type |-> "H", data |-> [kind |-> "H", format |-> 0, natts |-> 0]]

\* pq_putemptymessage('c')
CopyDone == [type |-> "c", data |-> [kind |-> "c"]]

\* location == NULL ? "." : location
WalkRoot(location) == IF location = NoLocation THEN Str_dot ELSE location

\* mutant: the size is counted by a walk that also sends
PreWalk_Sending(fs, location, withProgress) ==
    IF withProgress THEN sendDir(fs, WalkRoot(location), FALSE) ELSE NoWalk

\* "If we're asking for progress, start by counting the size"
PreWalk(fs, location, withProgress) ==
    IF withProgress THEN sendDir(fs, WalkRoot(location), TRUE) ELSE NoWalk

\* mutant: two zero blocks are sent before copy-done
BatchMessages_Terminated(location, spcoid, pre, walk) ==
    LET head == <<RowDescription,
                  DataRow(location, spcoid, pre.size),
                  CommandComplete("SELECT"),
                  CopyOutResponse>>
    IN  IF pre.err THEN [err |-> TRUE, msgs |-> pre.msgs]
        ELSE IF walk.err THEN [err |-> TRUE, msgs |-> pre.msgs \o head \o walk.msgs]
        ELSE [err |-> FALSE,
              msgs |-> pre.msgs \o head \o walk.msgs
                          \o <<CopyData(ZeroPayload(TAR_BLOCK)),
                               CopyData(ZeroPayload(TAR_BLOCK)), CopyDone>>]

\* the messages of SendBackupDirectory, given what the counting walk pre
\* and the sending walk did
BatchMessages(location, spcoid, pre, walk) ==
    LET head == <<RowDescription,
                  DataRow(location, spcoid, pre.size),
                  CommandComplete("SELECT"),
                  CopyOutResponse>>
    IN  IF pre.err THEN [err |-> TRUE, msgs |-> pre.msgs]
        ELSE IF walk.err THEN [err |-> TRUE, msgs |-> pre.msgs \o head \o walk.msgs]
        ELSE [err |-> FALSE, msgs |-> pre.msgs \o head \o walk.msgs \o <<CopyDone>>]

\* SendBackupDirectory(location, spcoid, progress): whether an error was
\* raised, and the messages sent until then
SendBackupDirectory(fs, location, spcoid, withProgress) ==
    The(UNION {
        { BatchMessages(location, spcoid, pre, walk) :
            walk \in {IF pre.err THEN NoWalk
                      ELSE sendDir(fs, WalkRoot(location), FALSE)} } :
        pre \in {PreWalk(fs, location, withProgress)} })

(***************************************************************************)
(* The data directories the server may hold.                               *)
(***************************************************************************)
\* number of tablespaces besides the data directory
MaxTablespaces == 2

DirEntry(entries, openable) ==
    [st_mode |-> 16832, st_uid |-> 1000, st_gid |-> 1000,
     st_size |-> OffOfInt(4096), st_mtime |-> 1300000000,
     entries |-> entries, openable |-> openable,
     link |-> <<>>, linkok |-> FALSE, lens |-> <<0>>]

\* a regular file that does not change while it is read
RegEntry(size, openable) ==
    [st_mode |-> 33152, st_uid |-> 1000, st_gid |-> 1000,
     st_size |-> OffOfInt(size), st_mtime |-> 1300000000,
     entries |-> <<>>, openable |-> openable,
     link |-> <<>>, linkok |-> FALSE, lens |-> <<size>>]

\* a regular file of 2^33 bytes; sendFile never reads it
HugeEntry ==
    [RegEntry(0, TRUE) EXCEPT !.st_size = Off(MAX_TAR_MEMBER_HI, 0)]

LnkEntry(target, linkok) ==
    [st_mode |-> 41471, st_uid |-> 1000, st_gid |-> 1000,
     st_size |-> OffOfInt(Len(target)), st_mtime |-> 1300000000,
     entries |-> <<>>, openable |-> FALSE,
     link |-> target, linkok |-> linkok, lens |-> <<0>>]

FifoEntry ==
    [st_mode |-> 4480, st_uid |-> 1000, st_gid |-> 1000,
     st_size |-> OffOfInt(0), st_mtime |-> 1300000000,
     entries |-> <<>>, openable |-> TRUE,
     link |-> <<>>, linkok |-> FALSE, lens |-> <<0>>]

\* the i-th tablespace: the name of its link in pg_tblspc and its location
TblspcOid(i) == DecimalDigits(16383 + i)

TblspcLocation(i) == Str_srv_ts \o DecimalDigits(i)

\* the order in which readdir returns the links of pg_tblspc
TblspcNames(n, reversed) ==
    [k \in 1..n |-> TblspcOid(IF reversed THEN n + 1 - k ELSE k)]

\* what can be wrong, or unusual, in the server's files
ServerFaults ==
    {"none", "extras", "tblspc_unopenable", "file_unopenable", "dir_unopenable",
     "aux_unopenable", "too_large", "link_unreadable"}

\* the links and locations of tablespaces 1..n; a location with an odd
\* number holds the file f, one with an even number is empty
RECURSIVE TblspcFiles(_, _)
TblspcFiles(n, fault) ==
    IF n = 0 THEN <<>>
    ELSE (PathJoin(Str_dot_pg_tblspc, TblspcOid(n))
              :> LnkEntry(TblspcLocation(n), ~(fault = "link_unreadable" /\ n = 1)))
         @@ (TblspcLocation(n)
              :> DirEntry(<<Str_dot, Str_dotdot>>
                            \o (IF n % 2 = 1 THEN <<Str_f>> ELSE <<>>), TRUE))
         @@ (IF n % 2 = 1
             THEN PathJoin(TblspcLocation(n), Str_f)
                      :> RegEntry(3, ~(fault = "aux_unopenable" /\ n = 1))
             ELSE <<>>)
         @@ TblspcFiles(n - 1, fault)

\* a data directory with n tablespaces
ServerTree(n, reversed, fault) ==
    LET extras == IF fault = "extras" THEN <<Str_s, Str_l, Str_gone>> ELSE <<>>
    IN  (Str_dot :> DirEntry(<<Str_dot, Str_dotdot, Str_x, Str_pg_xlog, Str_d,
                               Str_postmaster_pid, Str_pg_tblspc>> \o extras, TRUE))
        @@ (PathJoin(Str_dot, Str_x) :> RegEntry(9, fault # "file_unopenable"))
        @@ (Str_dot_pg_xlog :> DirEntry(<<Str_dot, Str_dotdot, Str_w>>, TRUE))
        @@ (PathJoin(Str_dot_pg_xlog, Str_w) :> RegEntry(16, TRUE))
        @@ (PathJoin(Str_dot, Str_d)
              :> DirEntry(<<Str_dot, Str_dotdot, Str_y>>, fault # "dir_unopenable"))
        @@ (PathJoin(PathJoin(Str_dot, Str_d), Str_y)
              :> IF fault = "too_large" THEN HugeEntry ELSE RegEntry(2048, TRUE))
        @@ (Str_dot_postmaster_pid :> RegEntry(5, TRUE))
        @@ (Str_dot_pg_tblspc
              :> DirEntry(<<Str_dot, Str_dotdot>> \o TblspcNames(n, reversed),
                          fault # "tblspc_unopenable"))
        @@ (IF fault = "extras"
            THEN (PathJoin(Str_dot, Str_s) :> FifoEntry)
                 @@ (PathJoin(Str_dot, Str_l) :> LnkEntry(Str_elsewhere, TRUE))
            ELSE <<>>)
        @@ TblspcFiles(n, fault)

ServerTrees ==
    { ServerTree(n, reversed, fault) :
        n \in 0..MaxTablespaces, reversed \in BOOLEAN, fault \in ServerFaults }

(***************************************************************************)
(* sendDir applied to one tree, from either root, in either mode.          *)
(***************************************************************************)
\* "z"
Str_z == <<122>>

\* the names in the order readdir returns them
RECURSIVE Reversed(_)
Reversed(s) == IF s = <<>> THEN <<>> ELSE Reversed(Tail(s)) \o <<Head(s)>>

Readdir(names, reversed) ==
    <<Str_dot, Str_dotdot>> \o (IF reversed THEN Reversed(names) ELSE names)

\* the reserved names, a directory pg_xlog holding w and a file postmaster.pid,
\* under dir
ReservedNames(dir, reversed) ==
    (PathJoin(dir, Str_pg_xlog) :> DirEntry(Readdir(<<Str_w>>, reversed), TRUE))
    @@ (PathJoin(PathJoin(dir, Str_pg_xlog), Str_w) :> RegEntry(16, TRUE))
    @@ (PathJoin(dir, Str_postmaster_pid) :> RegEntry(5, TRUE))

\* what differs between the trees walked: a special file s, a name gone
\* before lstat, the link of the tablespace unreadable
WalkFaults == {"none", "special", "gone", "unreadable"}

\* a data directory with one tablespace at TblspcLocation(1).  nested puts
\* the reserved names under ./d and under the tablespace as well; links puts
\* links to the directory /elsewhere in ./, ./d, ./pg_tblspc and in the
\* directory pg_tblspc of the tablespace.
WalkTree(in) ==
    LET nested == IF in.nested THEN <<Str_pg_xlog, Str_postmaster_pid>> ELSE <<>>
        link   == IF in.links THEN <<Str_l>> ELSE <<>>
        extra  == IF in.fault = "special" THEN <<Str_s>>
                  ELSE IF in.fault = "gone" THEN <<Str_gone>> ELSE <<>>
        d      == PathJoin(Str_dot, Str_d)
        ts     == TblspcLocation(1)
    IN  (Str_dot :> DirEntry(Readdir(<<Str_x, Str_pg_xlog, Str_d,
                                       Str_postmaster_pid, Str_pg_tblspc>>
                                       \o link \o extra, in.reversed), TRUE))
        @@ (PathJoin(Str_dot, Str_x) :> RegEntry(9, TRUE))
        @@ ReservedNames(Str_dot, in.reversed)
        @@ (d :> DirEntry(Readdir(<<Str_y>> \o nested \o link, in.reversed), TRUE))
        @@ (PathJoin(d, Str_y) :> RegEntry(600, TRUE))
        @@ (Str_dot_pg_tblspc
              :> DirEntry(Readdir(<<TblspcOid(1)>> \o link, in.reversed), TRUE))
        @@ (PathJoin(Str_dot_pg_tblspc, TblspcOid(1))
              :> LnkEntry(ts, in.fault # "unreadable"))
        @@ (ts :> DirEntry(Readdir(<<Str_f>> \o nested
                                     \o (IF in.links THEN <<Str_pg_tblspc>> ELSE <<>>),
                                   in.reversed), TRUE))
        @@ (PathJoin(ts, Str_f) :> RegEntry(3, TRUE))
        @@ (Str_elsewhere :> DirEntry(Readdir(<<Str_z>>, in.reversed), TRUE))
        @@ (PathJoin(Str_elsewhere, Str_z) :> RegEntry(7, TRUE))
        @@ (IF in.nested
            THEN ReservedNames(d, in.reversed) @@ ReservedNames(ts, in.reversed)
            ELSE <<>>)
        @@ (IF in.links
            THEN (PathJoin(Str_dot, Str_l) :> LnkEntry(Str_elsewhere, TRUE))
                 @@ (PathJoin(d, Str_l) :> LnkEntry(Str_elsewhere, TRUE))
                 @@ (PathJoin(Str_dot_pg_tblspc, Str_l)
                       :> LnkEntry(Str_elsewhere, TRUE))
                 @@ (PathJoin(ts, Str_pg_tblspc)
                       :> DirEntry(Readdir(<<Str_l>>, in.reversed), TRUE))
                 @@ (PathJoin(PathJoin(ts, Str_pg_tblspc), Str_l)
                       :> LnkEntry(Str_elsewhere, TRUE))
            ELSE <<>>)
        @@ (IF in.fault = "special"
            THEN PathJoin(Str_dot, Str_s) :> FifoEntry
            ELSE <<>>)

\* the walks: of the data directory or of the tablespace, to count or to send
InitWalk ==
    /\ IdleWal
    /\ IdleXlog
    /\ IdleSender
    /\ IdleClient
    /\ sf_pc = "walk"
    /\ sf_in \in [location : {NoLocation, TblspcLocation(1)},
                  sizeonly : BOOLEAN, reversed : BOOLEAN, nested : BOOLEAN,
                  links : BOOLEAN, fault : WalkFaults]
    /\ sf_out = NoWalk

\* sendDir(location == NULL ? "." : location, sizeonly)
CallSendDir ==
    /\ sf_pc = "walk"
    /\ sf_pc' = "walked"
    /\ sf_out' = sendDir(WalkTree(sf_in), WalkRoot(sf_in.location), sf_in.sizeonly)
    /\ UNCHANGED sf_in
    /\ SendFileFrame

SpecWalk == InitWalk /\ [][CallSendDir]_vars

(***************************************************************************)
(* basebackup.c: SendBaseBackup.                                           *)
(***************************************************************************)
\* an entry of sevents: what happened, whether it succeeded, the number of
\* messages sent before and after it, and the location or name it was about
Ev(ev, ok, from, to, arg) ==
    [ev |-> ev, ok |-> ok, from |-> from, to |-> to, arg |-> arg]

ErrorResponse == [type |-> "E", data |-> [kind |-> "E"]]

\* the CommandComplete that ends the command once SendBaseBackup has returned
FinalCommandComplete == CommandComplete("SELECT")

\* the current working directory is the data directory
FromCwd(path) == PathJoin(Str_dot, path)

\* mutant: the entries of pg_tblspc are taken last to first
TblspcEntries_Backwards ==
    LET e == sfs[FromCwd(Str_pg_tblspc)].entries
    IN  [k \in 1..Len(e) |-> e[Len(e) + 1 - k]]

\* the names ReadDir(dir, "pg_tblspc") returns, in order
TblspcEntries == sfs[FromCwd(Str_pg_tblspc)].entries

\* mutant: the hook does nothing
base_backup_cleanup_Nothing(at) == <<>>

\* base_backup_cleanup: do_pg_abort_backup()
base_backup_cleanup(at) == <<Ev("abort_backup", TRUE, at, at, <<>>)>>

\* PG_END_ENSURE_ERROR_CLEANUP comes before do_pg_stop_backup
ArmedAtStop == FALSE

\* ERROR raised in SendBaseBackup after the events evs and the messages
\* sent: the registered hook runs, then the client is told, if it can be
Raise(isArmed, evs, sent, clientSees) ==
    LET at == Len(wire) + Len(sent)
    IN  /\ spc' = "error"
        /\ armed' = FALSE
        /\ sevents' = sevents \o evs
                        \o <<Ev("error", FALSE, at, at, <<>>)>>
                        \o (IF isArmed THEN base_backup_cleanup(at) ELSE <<>>)
        /\ wire' = wire \o sent \o (IF clientSees THEN <<ErrorResponse>> ELSE <<>>)

\* the numbers of messages of a batch after which the connection may fail
SendCuts == {0, 2, 5}

\* how many of msgs are sent: all, or only some when the connection fails
SendFailurePoints(msgs) == {Len(msgs)} \cup {c \in SendCuts : c < Len(msgs)}

\* what SendBaseBackup's steps leave alone
SenderFrame ==
    /\ UNCHANGED <<sfs, progress>>
    /\ UNCHANGED rcvVars
    /\ SessionFrame

\* dir = AllocateDir("pg_tblspc")
SendBaseBackup_Open ==
    /\ spc = "begin"
    /\ IF AllocateDirOk(sfs, FromCwd(Str_pg_tblspc))
       THEN /\ spc' = "opened"
            /\ sevents' = Append(sevents,
                  Ev("opendir", TRUE, Len(wire), Len(wire), Str_pg_tblspc))
            /\ UNCHANGED <<armed, wire>>
       ELSE Raise(armed, <<Ev("opendir", FALSE, Len(wire), Len(wire), Str_pg_tblspc)>>,
                  <<>>, TRUE)
    /\ UNCHANGED sde
    /\ SenderFrame

\* do_pg_start_backup(backup_label, true); PG_ENSURE_ERROR_CLEANUP
SendBaseBackup_Start ==
    /\ spc = "opened"
    /\ \E ok \in BOOLEAN :
          IF ok
          THEN /\ spc' = "primary"
               /\ armed' = TRUE
               /\ sevents' = Append(sevents,
                     Ev("start_backup", TRUE, Len(wire), Len(wire), <<>>))
               /\ UNCHANGED wire
          ELSE Raise(armed, <<Ev("start_backup", FALSE, Len(wire), Len(wire), <<>>)>>,
                     <<>>, TRUE)
    /\ UNCHANGED sde
    /\ SenderFrame

\* SendBackupDirectory(location, spcoid, progress) inside the guarded block
SendBatch(location, spcoid) ==
    \E batch \in {SendBackupDirectory(sfs, location, spcoid, progress)} :
        \E cut \in SendFailurePoints(batch.msgs) :
          IF cut < Len(batch.msgs)
          THEN Raise(armed, <<Ev("batch", FALSE, Len(wire), Len(wire) + cut, location)>>,
                     SubSeq(batch.msgs, 1, cut), FALSE)
          ELSE IF batch.err
          THEN Raise(armed, <<Ev("batch", FALSE, Len(wire), Len(wire) + cut, location)>>,
                     batch.msgs, TRUE)
          ELSE /\ spc' = "loop"
               /\ sevents' = Append(sevents,
                     Ev("batch", TRUE, Len(wire), Len(wire) + cut, location))
               /\ wire' = wire \o batch.msgs
               /\ UNCHANGED armed

\* SendBackupDirectory(NULL, NULL, progress)
SendBaseBackup_Primary ==
    /\ spc = "primary"
    /\ SendBatch(NoLocation, NoLocation)
    /\ UNCHANGED sde
    /\ SenderFrame

\* the name ReadDir returns next and the path made of it
NextTblspcName == TblspcEntries[sde + 1]

NextTblspcPath == PathJoin(Str_pg_tblspc, NextTblspcName)

\* de->d_name[0] == '.', or readlink fails: continue
SendBaseBackup_Skip ==
    /\ spc = "loop"
    /\ sde < Len(TblspcEntries)
    /\ \/ NextTblspcName[1] = DOT
       \/ ~ReadlinkOk(sfs, FromCwd(NextTblspcPath))
    /\ sde' = sde + 1
    /\ sevents' = Append(sevents,
          Ev("skip", TRUE, Len(wire), Len(wire), NextTblspcName))
    /\ UNCHANGED <<spc, armed, wire>>
    /\ SenderFrame

\* SendBackupDirectory(linkpath, de->d_name, progress)
SendBaseBackup_Tablespace ==
    /\ spc = "loop"
    /\ sde < Len(TblspcEntries)
    /\ NextTblspcName[1] # DOT
    /\ ReadlinkOk(sfs, FromCwd(NextTblspcPath))
    /\ sde' = sde + 1
    /\ SendBatch(Linkpath(sfs, FromCwd(NextTblspcPath)), NextTblspcName)
    /\ SenderFrame

\* ReadDir returned NULL: FreeDir, PG_END_ENSURE_ERROR_CLEANUP,
\* do_pg_stop_backup, and the end of the command
SendBaseBackup_Stop ==
    /\ spc = "loop"
    /\ sde = Len(TblspcEntries)
    /\ \E ok \in BOOLEAN :
          IF ok
          THEN /\ spc' = "done"
               /\ armed' = FALSE
               /\ sevents' = Append(sevents,
                     Ev("stop_backup", TRUE, Len(wire), Len(wire) + 1, <<>>))
               /\ wire' = Append(wire, FinalCommandComplete)
          ELSE Raise(ArmedAtStop,
                     <<Ev("stop_backup", FALSE, Len(wire), Len(wire), <<>>)>>,
                     <<>>, TRUE)
    /\ UNCHANGED sde
    /\ SenderFrame

(***************************************************************************)
(* The client's side of the connection: what PQgetResult and               *)
(* PQgetCopyData return for the messages on the wire.                      *)
(***************************************************************************)
\* the server has ended the command: nothing more will arrive
ServerGone == spc \in {"done", "error"}

\* the index of the first message from k on that is no data row, 0 if none
RECURSIVE RowsEnd(_)
RowsEnd(k) ==
    IF k > Len(wire) THEN 0
    ELSE IF wire[k].type = "D" THEN RowsEnd(k + 1)
    ELSE k

ConnectionLost == [ready |-> ServerGone, status |-> "FATAL_ERROR", rows |-> <<>>, used |-> 0]

\* PQgetResult(conn): whether it can return yet, the result's status and
\* rows, and the number of messages it consumes
PQgetResult ==
    IF rpos >= Len(wire) THEN ConnectionLost
    ELSE LET m == wire[rpos + 1]
             e == RowsEnd(rpos + 2)
         IN  IF m.type = "T"
             THEN IF e = 0 THEN ConnectionLost
                  ELSE [ready |-> TRUE,
                        status |-> IF wire[e].type = "C" THEN "TUPLES_OK"
                                   ELSE "FATAL_ERROR",
                        rows |-> [k \in 1..(e - rpos - 2) |-> wire[rpos + 1 + k].data.cols],
                        used |-> e - rpos]
             ELSE [ready |-> TRUE,
                   status |-> IF m.type = "C" THEN "COMMAND_OK"
                              ELSE IF m.type = "H" THEN "COPY_OUT"
                              ELSE "FATAL_ERROR",
                   rows |-> <<>>,
                   used |-> 1]

\* PQgetCopyData(conn, &copybuf, 0): r, the buffer, the messages consumed.
\* A message that is neither copy data nor copy done ends the copy and is
\* left for PQgetResult.
PQgetCopyData ==
    IF rpos >= Len(wire)
    THEN [ready |-> ServerGone, r |-> -2, copybuf |-> ZeroPayload(0), used |-> 0]
    ELSE LET m == wire[rpos + 1]
         IN  IF m.type = "d"
             THEN [ready |-> TRUE, r |-> m.data.n, copybuf |-> m.data, used |-> 1]
             ELSE [ready |-> TRUE, r |-> -1, copybuf |-> ZeroPayload(0),
                   used |-> IF m.type = "c" THEN 1 ELSE 0]

\* PQgetisnull(res, row, col) and PQgetvalue(res, row, col), col from 0
PQgetisnull(result, row, col) == result.rows[row + 1][col + 1].len = -1

\* the value as the C string the callers take it for
PQgetvalue(result, row, col) ==
    CStrFrom(result.rows[row + 1][col + 1].val \o <<NUL>>, 0)

PQntuples(result) == Len(result.rows)

\* atol(s)
atol(s) == atoi(s)

(***************************************************************************)
(* The client's files.  rfs maps the components of a path, "." and empty   *)
(* components dropped, to [kind, chunks, target]; the first component of   *)
(* an absolute path is "/".                                                *)
(***************************************************************************)
\* the components of s from position k on, cur being the one in progress
RECURSIVE SplitPath(_, _, _)
SplitPath(s, k, cur) ==
    IF k > Len(s) THEN <<cur>>
    ELSE IF s[k] = SLASH THEN <<cur>> \o SplitPath(s, k + 1, <<>>)
    ELSE SplitPath(s, k + 1, Append(cur, s[k]))

PathKey(s) ==
    (IF Len(s) > 0 /\ s[1] = SLASH THEN << <<SLASH>> >> ELSE <<>>)
        \o SelectSeq(SplitPath(s, 1, <<>>), LAMBDA c : c # <<>> /\ c # Str_dot)

Parent(key) == SubSeq(key, 1, Len(key) - 1)

IsDirectory(fs, key) == key \in DOMAIN fs /\ fs[key].kind = "dir"

HasChildren(fs, key) ==
    \E k \in DOMAIN fs : Len(k) = Len(key) + 1 /\ SubSeq(k, 1, Len(key)) = key

NewDirectory == [kind |-> "dir", chunks |-> <<>>, target |-> <<>>]

NewFile == [kind |-> "reg", chunks |-> <<>>, target |-> <<>>]

NewSymlink(target) == [kind |-> "lnk", chunks |-> <<>>, target |-> target]

\* mkdir(fn, mode) == 0
MkdirOk(fs, fn) ==
    /\ PathKey(fn) # <<>>
    /\ PathKey(fn) \notin DOMAIN fs
    /\ IsDirectory(fs, Parent(PathKey(fn)))

\* fopen(fn, "wb") != NULL
FopenOk(fs, fn) ==
    /\ PathKey(fn) # <<>>
    /\ IsDirectory(fs, Parent(PathKey(fn)))
    /\ PathKey(fn) \in DOMAIN fs => fs[PathKey(fn)].kind = "reg"

\* symlink(target, fn) == 0
SymlinkOk(fs, target, fn) ==
    /\ target # <<>>
    /\ PathKey(fn) # <<>>
    /\ PathKey(fn) \notin DOMAIN fs
    /\ IsDirectory(fs, Parent(PathKey(fn)))

\* fs with entry stored under fn, replacing what was there
WithEntry(fs, fn, entry) ==
    [k \in DOMAIN fs \cup {PathKey(fn)} |->
        IF k = PathKey(fn) THEN entry ELSE fs[k]]

\* mutant: the new bytes are put in front of what the file holds
WithChunk_InFront(fs, key, payload) ==
    [fs EXCEPT ![key].chunks = <<payload>> \o @]

\* fwrite(copybuf, r, 1, file)
WithChunk(fs, key, payload) ==
    [fs EXCEPT ![key].chunks = Append(@, payload)]

\* pg_check_dir(dir): 0 missing, 1 empty, 2 not empty, -1 no directory
pg_check_dir(fs, dir) ==
    IF PathKey(dir) \notin DOMAIN fs THEN 0
    ELSE IF fs[PathKey(dir)].kind # "dir" THEN -1
    ELSE IF HasChildren(fs, PathKey(dir)) THEN 2
    ELSE 1

\* pg_mkdir_p(dir, mode): the directory and the missing ones above it
MkdirPOk(fs, dir) ==
    \A n \in 1..Len(PathKey(dir)) :
        LET k == SubSeq(PathKey(dir), 1, n)
        IN  k \in DOMAIN fs => fs[k].kind = "dir"

pg_mkdir_p(fs, dir) ==
    LET made == { SubSeq(PathKey(dir), 1, n) : n \in 1..Len(PathKey(dir)) }
    IN  [k \in DOMAIN fs \cup made |-> IF k \in DOMAIN fs THEN fs[k] ELSE NewDirectory]

\* mutant: the name is left as it came
HackedDirname_Unchanged(dirname) == dirname

\* "XXX: hack to allow restoring backups locally": dirname[0] = '_'
HackedDirname(dirname) ==
    IF Len(dirname) > 0 /\ dirname[1] = SLASH
    THEN <<UNDERSCORE>> \o Tail(dirname)
    ELSE dirname

\* verify_dir_is_empty_or_create(dirname): the name it leaves in the
\* caller's buffer, whether it returned, and the files afterwards
verify_dir_is_empty_or_create(fs, dirname) ==
    LET name == HackedDirname(dirname)
        found == pg_check_dir(fs, name)
    IN  IF found = 0
        THEN IF MkdirPOk(fs, name)
             THEN [dirname |-> name, ok |-> TRUE, fs |-> pg_mkdir_p(fs, name),
                   msg |-> ""]
             ELSE [dirname |-> name, ok |-> FALSE, fs |-> fs,
                   msg |-> "could not create directory"]
        ELSE IF found = 1
        THEN [dirname |-> name, ok |-> TRUE, fs |-> fs, msg |-> ""]
        ELSE IF found = 2
        THEN [dirname |-> name, ok |-> FALSE, fs |-> fs,
              msg |-> "directory exists but is not empty"]
        ELSE [dirname |-> name, ok |-> FALSE, fs |-> fs,
              msg |-> "could not access directory"]

\* "bk"
Str_bk == <<98, 107>>

\* "tars"
Str_tars == <<116, 97, 114, 115>>

\* "base.tar"
Str_base_tar == <<98, 97, 115, 101, 46, 116, 97, 114>>

\* ".tar"
Str_dot_tar == <<46, 116, 97, 114>>

\* "old"
Str_old == <<111, 108, 100>>

(***************************************************************************)
(* pg_basebackup.c: BaseBackup, ReceiveTarFile, ReceiveAndUnpackTarFile.   *)
(* The options are those main() accepts with compresslevel 0 and a tardir  *)
(* other than "-".                                                         *)
(***************************************************************************)
\* what the client's steps leave alone
ClientFrame ==
    /\ UNCHANGED <<sfs, sde, armed, sevents, wire>>
    /\ UNCHANGED <<basedir, tardir, showprogress>>
    /\ SessionFrame

\* fprintf(stderr, ...); exit(1)
Exit(msg) ==
    /\ rpc' = "exit1"
    /\ rexit' = msg

\* progress_report divides by totalsize: with totalsize 0 the division is
\* undefined, and the process goes on or is killed
ProgressCrashes(reporting) ==
    IF reporting /\ totalsize = 0 THEN BOOLEAN ELSE {FALSE}

\* progress_report(PQntuples(res), "") after PQclear(res) reads freed memory:
\* the process goes on or is killed
FreedResultRead(reporting) == IF reporting THEN BOOLEAN ELSE {FALSE}

\* the digits sscanf's %<width>o reads at C offset off of h
RECURSIVE OctalRun(_, _, _)
OctalRun(h, off, width) ==
    IF width = 0 \/ off >= Len(h) \/ h[off + 1] < DIGIT0 \/ h[off + 1] > DIGIT0 + 7
    THEN <<>>
    ELSE <<h[off + 1] - DIGIT0>> \o OctalRun(h, off + 1, width - 1)

\* C offset of the first character at or after off that is no blank
RECURSIVE SkipBlanks(_, _)
SkipBlanks(h, off) ==
    IF off < Len(h) /\ h[off + 1] = SPACE THEN SkipBlanks(h, off + 1) ELSE off

\* the value of at most ten octal digits
RECURSIVE OctalValue(_)
OctalValue(digits) ==
    IF digits = <<>> THEN 0
    ELSE OctalValue(SubSeq(digits, 1, Len(digits) - 1)) * 8 + digits[Len(digits)]

\* the int that eleven or fewer octal digits leave in an int variable
OctalToInt(digits) ==
    IF Len(digits) <= 10 THEN OctalValue(digits)
    ELSE LET top == digits[1] % 4
             low == OctalValue(Tail(digits))
         IN  (IF top >= 2 THEN top - 4 ELSE top) * OFF_BASE + low

\* sscanf(copybuf + 124, "%11o", &current_len_left)
ScanSize(h) ==
    LET digits == OctalRun(h, SkipBlanks(h, 124), 11)
    IN  [matched |-> digits # <<>>, val |-> OctalToInt(digits)]

\* ((len + 511) & ~511) - len
PaddingOf(len) == ((len + 511) \div TAR_BLOCK) * TAR_BLOCK - len

\* the verification of the directories of the rows after the first: the
\* name is changed in the result's own buffer
RECURSIVE VerifyTablespaceDirs(_, _, _)
VerifyTablespaceDirs(fs, rows, i) ==
    IF i >= Len(rows) THEN [ok |-> TRUE, fs |-> fs, rows |-> rows, msg |-> ""]
    ELSE LET v == verify_dir_is_empty_or_create(fs,
                      CStrFrom(rows[i + 1][2].val \o <<NUL>>, 0))
         IN  IF v.ok
             THEN VerifyTablespaceDirs(v.fs,
                      [rows EXCEPT ![i + 1][2] = Column(v.dirname)], i + 1)
             ELSE [ok |-> FALSE, fs |-> fs, rows |-> rows, msg |-> v.msg]

\* the sum of atol(PQgetvalue(res, i, 2)) over the rows
RECURSIVE SumSizes(_, _)
SumSizes(result, i) ==
    IF i >= PQntuples(result) THEN 0
    ELSE atol(PQgetvalue(result, i, 2)) + SumSizes(result, i + 1)

\* PQsendQuery(conn, "BASE_BACKUP LABEL '...' [PROGRESS]")
BaseBackup_SendQuery ==
    /\ rpc = "begin"
    /\ \E sent \in BOOLEAN :
          IF sent
          THEN /\ rpc' = "header"
               /\ spc' = "begin"
               /\ progress' = showprogress
               /\ UNCHANGED rexit
          ELSE /\ Exit("could not start base backup")
               /\ UNCHANGED <<spc, progress>>
    /\ UNCHANGED <<rpos, res, ri, totalsize, rfs, current_path, file,
                   current_len_left, current_padding>>
    /\ ClientFrame

\* "Get the header", the sum of the sizes and the directories of the
\* tablespaces
BaseBackup_GetHeader ==
    /\ rpc = "header"
    /\ PQgetResult.ready
    /\ LET got == PQgetResult
           checked == VerifyTablespaceDirs(rfs, got.rows, 1)
       IN  /\ rpos' = rpos + got.used
           /\ IF got.status # "TUPLES_OK"
              THEN /\ Exit("could not initiate base backup")
                   /\ UNCHANGED <<res, totalsize, rfs>>
              ELSE IF Len(got.rows) < 1
              THEN /\ Exit("no data returned from server")
                   /\ UNCHANGED <<res, totalsize, rfs>>
              ELSE IF basedir # NoStr /\ ~checked.ok
              THEN /\ Exit(checked.msg)
                   /\ UNCHANGED <<res, totalsize, rfs>>
              ELSE /\ rpc' = "loop"
                   /\ res' = [status |-> got.status,
                              rows |-> IF basedir # NoStr THEN checked.rows
                                       ELSE got.rows]
                   /\ totalsize' = IF showprogress THEN SumSizes(got, 0) ELSE 0
                   /\ rfs' = IF basedir # NoStr THEN checked.fs ELSE rfs
                   /\ UNCHANGED rexit
    /\ ri' = 0
    /\ UNCHANGED <<spc, progress, current_path, file, current_len_left,
                   current_padding>>
    /\ ClientFrame

\* the name of the archive file of batch rownum
TarFileName(result, rownum) ==
    IF PQgetisnull(result, rownum, 0)
    THEN PathJoin(tardir, Str_base_tar)
    ELSE PathJoin(tardir, PQgetvalue(result, rownum, 0) \o Str_dot_tar)

\* ReceiveTarFile up to its loop: the file is created and the copy begins
ReceiveTarFile_Start ==
    /\ rpc = "loop"
    /\ ri < PQntuples(res)
    /\ tardir # NoStr
    /\ PQgetResult.ready
    /\ LET fn == TarFileName(res, ri)
           got == PQgetResult
       IN  IF ~FopenOk(rfs, fn)
           THEN /\ Exit("could not create file")
                /\ UNCHANGED <<rpos, rfs, file>>
           ELSE /\ rfs' = WithEntry(rfs, fn, NewFile)
                /\ rpos' = rpos + got.used
                /\ IF got.status # "COPY_OUT"
                   THEN /\ Exit("could not get COPY data stream")
                        /\ UNCHANGED file
                   ELSE /\ rpc' = "tarcopy"
                        /\ file' = PathKey(fn)
                        /\ UNCHANGED rexit
    /\ UNCHANGED <<spc, progress, res, ri, totalsize, current_path,
                   current_len_left, current_padding>>
    /\ ClientFrame

\* one round of ReceiveTarFile's loop
ReceiveTarFile_CopyData ==
    /\ rpc = "tarcopy"
    /\ PQgetCopyData.ready
    /\ LET got == PQgetCopyData
       IN  /\ rpos' = rpos + got.used
           /\ IF got.r = -1
              THEN /\ rfs' = WithChunk(rfs, file, ZeroPayload(2 * TAR_BLOCK))
                   /\ file' = NoFile
                   /\ rpc' = "loop"
                   /\ ri' = ri + 1
                   /\ UNCHANGED rexit
              ELSE IF got.r = -2
              THEN /\ Exit("could not read COPY data")
                   /\ UNCHANGED <<rfs, file, ri>>
              ELSE /\ rfs' = WithChunk(rfs, file, got.copybuf)
                   /\ \E crash \in ProgressCrashes(showprogress) :
                         rpc' = IF crash THEN "crash" ELSE "tarcopy"
                   /\ UNCHANGED <<file, ri, rexit>>
    /\ UNCHANGED <<spc, progress, res, totalsize, current_path,
                   current_len_left, current_padding>>
    /\ ClientFrame

\* the directory batch rownum is unpacked into
UnpackTarget(result, rownum) ==
    IF PQgetisnull(result, rownum, 0) THEN basedir
    ELSE PQgetvalue(result, rownum, 1)

\* ReceiveAndUnpackTarFile up to its loop: the target directory is verified
\* and the copy begins
ReceiveAndUnpackTarFile_Start ==
    /\ rpc = "loop"
    /\ ri < PQntuples(res)
    /\ tardir = NoStr
    /\ PQgetResult.ready
    /\ LET v == verify_dir_is_empty_or_create(rfs, UnpackTarget(res, ri))
           got == PQgetResult
       IN  /\ current_path' = v.dirname
           /\ IF ~v.ok
              THEN /\ Exit(v.msg)
                   /\ UNCHANGED <<rpos, rfs>>
              ELSE /\ rfs' = v.fs
                   /\ rpos' = rpos + got.used
                   /\ IF got.status # "COPY_OUT"
                      THEN Exit("could not get COPY data stream")
                      ELSE /\ rpc' = "unpack"
                           /\ UNCHANGED rexit
    /\ file' = NoFile
    /\ UNCHANGED <<spc, progress, res, ri, totalsize, current_len_left,
                   current_padding>>
    /\ ClientFrame

\* mutant: no name is taken for that of a directory or link
EndsInSlash_Never(fn) == FALSE

\* fn[strlen(fn) - 1] == '/'
EndsInSlash(fn) == fn[Len(fn)] = SLASH

\* the round of the unpacker's loop that takes copybuf for a tar header
UnpackHeader(copybuf) ==
    LET h == copybuf.bytes
        size == ScanSize(h)
        fn == PathJoin(current_path, CStrFrom(h, 0))
        stripped == SubSeq(fn, 1, Len(fn) - 1)
        typeflag == h[157]
        linktarget == CStrFrom(h, 157)
    IN  IF ~size.matched
        THEN /\ Exit("could not parse file size")
             /\ UNCHANGED <<rfs, file, current_len_left, current_padding>>
        ELSE /\ current_len_left' = size.val
             /\ current_padding' = PaddingOf(size.val)
             /\ IF EndsInSlash(fn)
                THEN /\ UNCHANGED file
                     /\ IF typeflag = DIGIT0 + 5
                        THEN IF MkdirOk(rfs, stripped)
                             THEN /\ rfs' = WithEntry(rfs, stripped, NewDirectory)
                                  /\ UNCHANGED <<rpc, rexit>>
                             ELSE /\ Exit("could not create directory")
                                  /\ UNCHANGED rfs
                        ELSE IF typeflag = DIGIT0 + 2
                        THEN IF SymlinkOk(rfs, linktarget, stripped)
                             THEN /\ rfs' = WithEntry(rfs, stripped,
                                                     NewSymlink(linktarget))
                                  /\ UNCHANGED <<rpc, rexit>>
                             ELSE /\ Exit("could not create symbolic link")
                                  /\ UNCHANGED rfs
                        ELSE /\ Exit("unknown link indicator")
                             /\ UNCHANGED rfs
                ELSE IF FopenOk(rfs, fn)
                THEN /\ rfs' = WithEntry(rfs, fn, NewFile)
                     /\ file' = IF size.val = 0 THEN NoFile ELSE PathKey(fn)
                     /\ UNCHANGED <<rpc, rexit>>
                ELSE /\ Exit("could not create file")
                     /\ UNCHANGED <<rfs, file>>

\* mutant: the file is closed with its last body byte, padding or not
UnpackData_NoPadding(r, copybuf) ==
    /\ rfs' = WithChunk(rfs, file, copybuf)
    /\ current_len_left' = current_len_left - r
    /\ file' = IF current_len_left - r = 0 THEN NoFile ELSE file
    /\ \E crash \in ProgressCrashes(showprogress) :
          rpc' = IF crash THEN "crash" ELSE "unpack"
    /\ UNCHANGED <<current_padding, rexit>>

\* the round that takes copybuf for more of the open file
UnpackData(r, copybuf) ==
    IF current_len_left = 0 /\ r = current_padding
    THEN /\ file' = NoFile
         /\ UNCHANGED <<rfs, current_len_left, current_padding, rpc, rexit>>
    ELSE /\ rfs' = WithChunk(rfs, file, copybuf)
         /\ current_len_left' = current_len_left - r
         /\ file' = IF current_len_left - r = 0 /\ current_padding = 0
                    THEN NoFile ELSE file
         /\ \E crash \in ProgressCrashes(showprogress) :
               rpc' = IF crash THEN "crash" ELSE "unpack"
         /\ UNCHANGED <<current_padding, rexit>>

\* one round of ReceiveAndUnpackTarFile's loop, and what follows the loop
ReceiveAndUnpackTarFile_CopyData ==
    /\ rpc = "unpack"
    /\ PQgetCopyData.ready
    /\ LET got == PQgetCopyData
       IN  /\ rpos' = rpos + got.used
           /\ IF got.r = -1
              THEN /\ IF file # NoFile
                      THEN /\ Exit("last file was never finished")
                           /\ UNCHANGED ri
                      ELSE /\ rpc' = "loop"
                           /\ ri' = ri + 1
                           /\ UNCHANGED rexit
                   /\ UNCHANGED <<rfs, file, current_len_left, current_padding>>
              ELSE IF got.r = -2
              THEN /\ Exit("could not read COPY data")
                   /\ UNCHANGED <<rfs, file, current_len_left, current_padding, ri>>
              ELSE IF file = NoFile
              THEN /\ UNCHANGED ri
                   /\ IF got.r # TAR_BLOCK
                      THEN /\ Exit("Invalid tar block header size")
                           /\ UNCHANGED <<rfs, file, current_len_left,
                                          current_padding>>
                      \* 512 bytes of a file's body taken for a header: what
                      \* they hold is not known here
                      ELSE IF got.copybuf.kind # "bytes"
                      THEN /\ rpc' = "garbage"
                           /\ UNCHANGED <<rfs, file, current_len_left,
                                          current_padding, rexit>>
                      ELSE UnpackHeader(got.copybuf)
              ELSE /\ UNCHANGED ri
                   /\ UnpackData(got.r, got.copybuf)
    /\ UNCHANGED <<spc, progress, res, totalsize, current_path>>
    /\ ClientFrame

\* after the loop over the batches: the final result
BaseBackup_Final ==
    /\ rpc = "loop"
    /\ ri >= PQntuples(res)
    /\ PQgetResult.ready
    /\ \E crash \in ProgressCrashes(showprogress) \cup FreedResultRead(showprogress) :
          IF crash
          THEN /\ rpc' = "crash"
               /\ UNCHANGED <<rpos, rexit>>
          ELSE /\ rpos' = rpos + PQgetResult.used
               /\ IF PQgetResult.status # "COMMAND_OK"
                  THEN Exit("final receive failed")
                  ELSE /\ rpc' = "done"
                       /\ UNCHANGED rexit
    /\ UNCHANGED <<spc, progress, res, ri, totalsize, rfs, current_path, file,
                   current_len_left, current_padding>>
    /\ ClientFrame

(***************************************************************************)
(* A backup session: pg_basebackup's BaseBackup against SendBaseBackup.    *)
(***************************************************************************)
\* the client's files once main() has verified its target directory
ClientTree(dir) ==
    (<<>> :> NewDirectory)
        @@ (<< <<SLASH>> >> :> NewDirectory)
        @@ (PathKey(dir) :> NewDirectory)

Init ==
    /\ IdleWal
    /\ IdleXlog
    /\ IdleSendFile
    /\ sfs \in ServerTrees
    /\ progress = FALSE
    /\ spc = "idle"
    /\ sde = 0
    /\ armed = FALSE
    /\ sevents = <<>>
    /\ wire = <<>>
    /\ rpc = "begin"
    /\ \E unpacking \in BOOLEAN :
          /\ basedir = IF unpacking THEN Str_bk ELSE NoStr
          /\ tardir = IF unpacking THEN NoStr ELSE Str_tars
    /\ showprogress \in BOOLEAN
    /\ rpos = 0
    /\ res = [status |-> "", rows |-> <<>>]
    /\ ri = 0
    /\ totalsize = 0
    /\ rfs = ClientTree(IF basedir # NoStr THEN basedir ELSE tardir)
    /\ current_path = <<>>
    /\ file = NoFile
    /\ current_len_left = 0
    /\ current_padding = 0
    /\ rexit = ""

Next ==
    \/ BaseBackup_SendQuery
    \/ BaseBackup_GetHeader
    \/ ReceiveTarFile_Start
    \/ ReceiveTarFile_CopyData
    \/ ReceiveAndUnpackTarFile_Start
    \/ ReceiveAndUnpackTarFile_CopyData
    \/ BaseBackup_Final
    \/ SendBaseBackup_Open
    \/ SendBaseBackup_Start
    \/ SendBaseBackup_Primary
    \/ SendBaseBackup_Skip
    \/ SendBaseBackup_Tablespace
    \/ SendBaseBackup_Stop

Spec == Init /\ [][Next]_vars

(***************************************************************************)
(* ReceiveAndUnpackTarFile applied to one batch of SendBackupDirectory.    *)
(***************************************************************************)
\* the batches SendBaseBackup sends for the files fs: location and spcoid
BatchesOf(fs) ==
    {[location |-> NoLocation, spcoid |-> NoLocation]}
        \cup { [location |-> Linkpath(fs, PathJoin(Str_dot_pg_tblspc, TblspcOid(i))),
                spcoid |-> TblspcOid(i)] :
               i \in { j \in 1..MaxTablespaces :
                         ReadlinkOk(fs, PathJoin(Str_dot_pg_tblspc, TblspcOid(j))) } }

\* the messages the client gets for a batch: to the copy-done, or to the
\* error
BatchStream(batch) ==
    batch.msgs \o (IF batch.err THEN <<ErrorResponse>> ELSE <<>>)

\* the client's files with something in directory dir already
Occupied(fs, dir) ==
    WithEntry(pg_mkdir_p(fs, HackedDirname(dir)),
              PathJoin(HackedDirname(dir), Str_old), NewFile)

InitUnpack ==
    /\ IdleWal
    /\ IdleXlog
    /\ IdleSendFile
    /\ sfs \in ServerTrees
    /\ progress = FALSE
    /\ spc = "done"
    /\ sde = 0
    /\ armed = FALSE
    /\ sevents = <<>>
    /\ \E b \in BatchesOf(sfs) :
          \E batch \in {SendBackupDirectory(sfs, b.location, b.spcoid, progress)} :
              wire = BatchStream(batch)
    /\ rpc = "loop"
    /\ basedir = Str_bk
    /\ tardir = NoStr
    /\ showprogress = FALSE
    /\ rpos = 3
    /\ res = [status |-> "TUPLES_OK", rows |-> <<wire[2].data.cols>>]
    /\ ri = 0
    /\ totalsize = 0
    /\ \E occupied \in BOOLEAN :
          rfs = IF occupied
                THEN Occupied(ClientTree(basedir), UnpackTarget(res, ri))
                ELSE ClientTree(basedir)
    /\ current_path = <<>>
    /\ file = NoFile
    /\ current_len_left = 0
    /\ current_padding = 0
    /\ rexit = ""

NextUnpack ==
    \/ ReceiveAndUnpackTarFile_Start
    \/ ReceiveAndUnpackTarFile_CopyData

SpecUnpack == InitUnpack /\ [][NextUnpack]_vars

(***************************************************************************)
(* ReceiveAndUnpackTarFile on a copy the server ends early: the messages   *)
(* of a batch up to some point, then copy-done or the error of a server    *)
(* that gave up.                                                           *)
(***************************************************************************)
\* how the server ends the copy
CopyEndings == {CopyDone, ErrorResponse}

\* the first cut messages of a batch and the end of the copy; the copy-out
\* response is the fourth message
TruncatedStreams(msgs) ==
    { SubSeq(msgs, 1, cut) \o <<ending>> :
         cut \in 4..(Len(msgs) - 1), ending \in CopyEndings }

InitTruncated ==
    /\ IdleWal
    /\ IdleXlog
    /\ IdleSendFile
    /\ sfs \in ServerTrees
    /\ progress = FALSE
    /\ spc = "done"
    /\ sde = 0
    /\ armed = FALSE
    /\ sevents = <<>>
    /\ \E b \in BatchesOf(sfs) :
          \E batch \in {SendBackupDirectory(sfs, b.location, b.spcoid, progress)} :
              /\ ~batch.err
              /\ wire \in TruncatedStreams(batch.msgs)
    /\ rpc = "loop"
    /\ basedir = Str_bk
    /\ tardir = NoStr
    /\ showprogress = FALSE
    /\ rpos = 3
    /\ res = [status |-> "TUPLES_OK", rows |-> <<wire[2].data.cols>>]
    /\ ri = 0
    /\ totalsize = 0
    /\ rfs = ClientTree(basedir)
    /\ current_path = <<>>
    /\ file = NoFile
    /\ current_len_left = 0
    /\ current_padding = 0
    /\ rexit = ""

NextTruncated ==
    \/ ReceiveAndUnpackTarFile_Start
    \/ ReceiveAndUnpackTarFile_CopyData

SpecTruncated == InitTruncated /\ [][NextTruncated]_vars

(***************************************************************************)
(* ReceiveAndUnpackTarFile on any copy stream: headers of every kind and   *)
(* buffers of every size, in any order.                                    *)
(***************************************************************************)
\* "a", "n", "b", "/t"
Str_a == <<97>>

Str_n == <<110>>

Str_b == <<98>>

Str_slash_t == <<47, 116>>

\* the header the sender writes for a directory, with typeflag in its place
FlaggedHeader(filename, typeflag) ==
    Poke(_tarWriteHeader(filename, NoLink, DirEntry(<<>>, TRUE)), 156, <<typeflag>>)

\* the buffers PQgetCopyData may return: headers of directories, of links
\* with and without a target, of names that end in a slash with the type
\* flag of a regular file or of a hard link, of regular files of 0, 5 and
\* 512 bytes, and data of 3, 5, 507, 512 and 600 bytes
StreamHeaders ==
    { _tarWriteHeader(PathJoin(Str_dot, Str_a), NoLink, DirEntry(<<>>, TRUE)),
      _tarWriteHeader(PathJoin(PathJoin(Str_dot, Str_a), Str_n), NoLink,
                      DirEntry(<<>>, TRUE)),
      _tarWriteHeader(PathJoin(Str_dot, Str_b), Str_slash_t,
                      LnkEntry(Str_slash_t, TRUE)),
      _tarWriteHeader(PathJoin(Str_dot, Str_b), <<>>, LnkEntry(<<>>, FALSE)),
      FlaggedHeader(PathJoin(Str_dot, Str_a), DIGIT0),
      FlaggedHeader(PathJoin(Str_dot, Str_a), DIGIT0 + 1),
      _tarWriteHeader(PathJoin(Str_dot, Str_f), NoLink, RegEntry(0, TRUE)),
      _tarWriteHeader(PathJoin(Str_dot, Str_f), NoLink, RegEntry(5, TRUE)),
      _tarWriteHeader(PathJoin(Str_dot, Str_f), NoLink, RegEntry(512, TRUE)) }

StreamBufferSizes == {3, 5, 507, 512, 600}

StreamMessages ==
    { CopyData(BytesPayload(h)) : h \in StreamHeaders }
        \cup { CopyData(FilePayload(Str_f, 0, n)) : n \in StreamBufferSizes }

\* the longest stream, in messages
MaxStream == 3

\* the messages in front of the copy data of the primary batch, any
\* messages, and the copy-done
AnyStreams ==
    { SubSeq(BatchMessages(NoLocation, NoLocation, NoWalk, NoWalk).msgs, 1, 4)
          \o body \o <<CopyDone>> :
        body \in UNION { [1..n -> StreamMessages] : n \in 0..MaxStream } }

InitAnyStream ==
    /\ IdleWal
    /\ IdleXlog
    /\ IdleSendFile
    /\ sfs = <<>>
    /\ progress = FALSE
    /\ spc = "done"
    /\ sde = 0
    /\ armed = FALSE
    /\ sevents = <<>>
    /\ wire \in AnyStreams
    /\ rpc = "loop"
    /\ basedir = Str_bk
    /\ tardir = NoStr
    /\ showprogress = FALSE
    /\ rpos = 3
    /\ res = [status |-> "TUPLES_OK", rows |-> <<wire[2].data.cols>>]
    /\ ri = 0
    /\ totalsize = 0
    /\ rfs = ClientTree(basedir)
    /\ current_path = <<>>
    /\ file = NoFile
    /\ current_len_left = 0
    /\ current_padding = 0
    /\ rexit = ""

NextAnyStream ==
    \/ ReceiveAndUnpackTarFile_Start
    \/ ReceiveAndUnpackTarFile_CopyData

SpecAnyStream == InitAnyStream /\ [][NextAnyStream]_vars

(***************************************************************************)
(* Properties of sendFile.                                                 *)
(***************************************************************************)
\* the messages of a returned sendFile call after the header
SentBody == Tail(sf_out.msgs)

\* the file bytes among the first k messages of the body
RECURSIVE FileBytesIn(_, _)
FileBytesIn(body, k) ==
    IF k = 0 THEN 0
    ELSE FileBytesIn(body, k - 1)
         + (IF body[k].data.kind = "file" THEN body[k].data.n ELSE 0)

\* the file was at least st_size long at every read
NeverShort == \A k \in 1..Len(sf_in.lens) : sf_in.lens[k] >= sf_in.size

\* C1: for a regular file of declared size N and any behaviour of the reader
\* (short reads, end of file before N, more than N available), sendFile sends
\* a 512-byte header and then exactly ceil(N/512)*512 body bytes: first the
\* bytes read from the file, in file order from offset 0, never beyond N (all
\* N of them when the file never was shorter than N), then only zero bytes.
C1_SendFileBody ==
    (sf_pc = "returned" /\ ~sf_out.err) =>
        LET N == sf_in.size
            body == SentBody
        IN  /\ Head(sf_out.msgs).data.kind = "bytes"
            /\ Len(Head(sf_out.msgs).data.bytes) = TAR_BLOCK
            /\ PayloadBytes(body) = ((N + TAR_BLOCK - 1) \div TAR_BLOCK) * TAR_BLOCK
            /\ \A i \in 1..Len(body) :
                /\ body[i].type = "d"
                /\ body[i].data.kind \in {"file", "zero"}
                /\ body[i].data.n > 0
                /\ body[i].data.kind = "file" =>
                    /\ body[i].data.src = Str_x
                    /\ body[i].data.off = PayloadBytes(SubSeq(body, 1, i - 1))
                    /\ body[i].data.off + body[i].data.n <= N
                    /\ \A j \in 1..(i - 1) : body[j].data.kind = "file"
            /\ NeverShort => FileBytesIn(body, Len(body)) = N

\* a file that shrank during the call: some of its bytes were sent, fewer
\* than N, and zeros fill the rest and pad the last block
C1_Witness ==
    /\ sf_pc = "returned"
    /\ ~sf_out.err
    /\ sf_in.size % TAR_BLOCK # 0
    /\ FileBytesIn(SentBody, Len(SentBody)) > 0
    /\ FileBytesIn(SentBody, Len(SentBody)) < sf_in.size
    /\ \E k \in 1..Len(sf_in.lens) : sf_in.lens[k] > sf_in.size


(***************************************************************************)
(* Properties of SendBaseBackup and SendBackupDirectory.                   *)
(***************************************************************************)
\* the entries of sevents of one kind, in order
EventsOf(kind) == SelectSeq(sevents, LAMBDA e : e.ev = kind)

\* an error was raised while a batch was being sent
BatchFailed ==
    \E k \in 1..Len(sevents) : sevents[k].ev = "batch" /\ ~sevents[k].ok

\* C2: when an error is raised after start_backup has returned and while the
\* primary or an auxiliary batch is being sent (directory walk, file open,
\* member too large, message send), abort_backup is invoked exactly once,
\* after the error, and stop_backup is not invoked in the session.
C2_AbortOnBatchError ==
    BatchFailed =>
        /\ spc = "error"
        /\ Len(EventsOf("start_backup")) = 1
        /\ EventsOf("start_backup")[1].ok
        /\ Len(EventsOf("abort_backup")) = 1
        /\ sevents[Len(sevents)].ev = "abort_backup"
        /\ sevents[Len(sevents) - 1].ev = "error"
        /\ EventsOf("stop_backup") = <<>>

\* an auxiliary batch raised an error of its own (not a failed send) and
\* abort_backup was invoked
C2_Witness ==
    /\ \E k \in 1..Len(sevents) :
          /\ sevents[k].ev = "batch"
          /\ ~sevents[k].ok
          /\ sevents[k].arg # NoLocation
    /\ wire # <<>>
    /\ wire[Len(wire)].type = "E"
    /\ Len(EventsOf("abort_backup")) = 1

\* C3: the hook stays armed until stop_backup has succeeded, so that an
\* error raised inside stop_backup invokes abort_backup exactly once.
C3_AbortOnStopError ==
    (\E k \in 1..Len(sevents) : sevents[k].ev = "stop_backup" /\ ~sevents[k].ok)
        => Len(EventsOf("abort_backup")) = 1

\* the names of pg_tblspc for which SendBaseBackup is to send a batch: the
\* non-dot entries whose link can be read, as readdir returns them
BackedUpTablespaces ==
    SelectSeq(sfs[Str_dot_pg_tblspc].entries,
              LAMBDA n : /\ n[1] # DOT
                         /\ sfs[PathJoin(Str_dot_pg_tblspc, n)].linkok)

\* the locations of the batches of a complete backup, in order
ExpectedLocations ==
    <<NoLocation>>
        \o [k \in 1..Len(BackedUpTablespaces) |->
               sfs[PathJoin(Str_dot_pg_tblspc, BackedUpTablespaces[k])].link]

\* C5: in a session that completes without error, pg_tblspc is opened first,
\* start_backup is invoked exactly once and before any message is sent, the
\* primary batch is sent first, then one batch per non-dot entry of pg_tblspc
\* with a readable link, in enumeration order, and stop_backup is invoked
\* exactly once, after the copy-done of the last batch.  When the open fails
\* start_backup is not invoked.
C5_SenderOrder ==
    /\ (\E k \in 1..Len(sevents) : sevents[k].ev = "opendir" /\ ~sevents[k].ok)
          => EventsOf("start_backup") = <<>>
    /\ spc = "done" =>
          LET batches == EventsOf("batch")
              last == sevents[Len(sevents)]
          IN  /\ sevents[1].ev = "opendir" /\ sevents[1].ok
              /\ sevents[2].ev = "start_backup" /\ sevents[2].ok
              /\ sevents[2].to = 0
              /\ Len(EventsOf("start_backup")) = 1
              /\ sevents[3].ev = "batch" /\ sevents[3].arg = NoLocation
              /\ [k \in 1..Len(batches) |-> batches[k].arg] = ExpectedLocations
              /\ batches[1].from = 0
              /\ \A k \in 1..Len(batches) :
                    /\ batches[k].ok
                    /\ wire[batches[k].to].type = "c"
                    /\ k < Len(batches) => batches[k + 1].from = batches[k].to
              /\ Len(EventsOf("stop_backup")) = 1
              /\ last.ev = "stop_backup" /\ last.ok
              /\ last.from = batches[Len(batches)].to
              /\ EventsOf("abort_backup") = <<>>

\* a session completed with the primary batch and two auxiliary ones, the
\* links of pg_tblspc being enumerated from the higher name to the lower
C5_Witness ==
    /\ spc = "done"
    /\ Len(EventsOf("batch")) = 3
    /\ EventsOf("batch")[2].arg = TblspcLocation(2)
    /\ EventsOf("batch")[3].arg = TblspcLocation(1)

\* the messages SendBackupDirectory sent in the call of event e
Segment(e) == SubSeq(wire, e.from + 1, e.to)

\* C6: the messages of a batch are one row description of 3 columns, exactly
\* one data row, one command-complete with tag SELECT, one copy-out response,
\* copy-data messages, one copy-done; the two location columns of the data
\* row are NULL iff the batch is the primary one; no copy-data message is
\* sent before the copy-out response, with or without the progress pre-walk,
\* and whether or not the batch ends in an error.
C6_BatchMessages ==
    \A k \in 1..Len(sevents) :
        sevents[k].ev = "batch" =>
            LET e == sevents[k]
                seg == Segment(e)
                n == Len(seg)
            IN  /\ \A i \in 1..n : seg[i].type = "d" => (i > 4 /\ seg[4].type = "H")
                /\ \A i \in 1..(n - 1) : seg[i].type # "c"
                /\ e.ok =>
                     /\ n >= 5
                     /\ seg[1].type = "T"
                     /\ seg[1].data.nfields = 3
                     /\ Len(seg[1].data.fields) = 3
                     /\ seg[2].type = "D"
                     /\ seg[2].data.ncols = 3
                     /\ Len(seg[2].data.cols) = 3
                     /\ seg[3].type = "C"
                     /\ seg[3].data.tag = "SELECT"
                     /\ seg[4].type = "H"
                     /\ \A i \in 5..(n - 1) : seg[i].type = "d"
                     /\ seg[n].type = "c"
                     /\ (/\ seg[2].data.cols[1].len = -1
                         /\ seg[2].data.cols[2].len = -1) <=> (e.arg = NoLocation)
                     /\ (\/ seg[2].data.cols[1].len = -1
                         \/ seg[2].data.cols[2].len = -1) <=> (e.arg = NoLocation)

\* with PROGRESS, a primary and an auxiliary batch were sent, each with
\* copy-data messages
C6_Witness ==
    /\ progress
    /\ \E j, k \in 1..Len(sevents) :
          /\ sevents[j].ev = "batch" /\ sevents[j].ok
          /\ sevents[j].arg = NoLocation
          /\ sevents[j].to - sevents[j].from > 5
          /\ sevents[k].ev = "batch" /\ sevents[k].ok
          /\ sevents[k].arg # NoLocation
          /\ sevents[k].to - sevents[k].from > 5

(***************************************************************************)
(* Properties of a backup session and of the unpacker.                     *)
(***************************************************************************)
\* the set of the elements of a sequence
Range(s) == { s[i] : i \in 1..Len(s) }

\* fs holds only what a backup is meant to carry, and nothing changes
\* while it is read: regular files, directories, and links of pg_tblspc
\* to directories
CleanTree(fs) ==
    \A p \in DOMAIN fs :
        \/ /\ S_ISREG(fs[p].st_mode)
           /\ fs[p].openable
           /\ ~TooLargeForTar(fs[p].st_size)
           /\ fs[p].lens = <<OffInt(fs[p].st_size)>>
        \/ /\ S_ISDIR(fs[p].st_mode)
           /\ fs[p].openable
           /\ \A n \in Range(fs[p].entries) :
                 n \in {Str_dot, Str_dotdot} \/ PathJoin(p, n) \in DOMAIN fs
        \/ /\ S_ISLNK(fs[p].st_mode)
           /\ fs[p].linkok
           /\ \E n \in Range(fs[Str_dot_pg_tblspc].entries) :
                 p = PathJoin(Str_dot_pg_tblspc, n)
           /\ fs[p].link \in DOMAIN fs
           /\ S_ISDIR(fs[fs[p].link].st_mode)

\* the client side ended: successfully, or by exit(1)
ClientEnded == rpc \in {"done", "exit1"}

\* the files directly in the archive directory
ArchiveFiles ==
    { k \in DOMAIN rfs : k # <<>> /\ Parent(k) = PathKey(tardir)
                         /\ rfs[k].kind = "reg" }

\* C4: when the sender runs BASE_BACKUP to completion for K storage
\* locations, the client consumes every message of the K batches and the
\* final command-complete, ends successfully, and has one archive file, or
\* one unpacked directory, per storage location.
C4_AllBatchesConsumed ==
    (CleanTree(sfs) /\ spc = "done" /\ ClientEnded) =>
        /\ rpc = "done"
        /\ rpos = Len(wire)
        /\ tardir # NoStr => Cardinality(ArchiveFiles) = Len(ExpectedLocations)
        /\ basedir # NoStr =>
              \A k \in 2..Len(ExpectedLocations) :
                  IsDirectory(rfs, PathKey(HackedDirname(ExpectedLocations[k])))

\* the directory the batch in hand was made from, and where it is unpacked
BatchRoot ==
    IF PQgetisnull(res, 0, 0) THEN Str_dot ELSE PQgetvalue(res, 0, 1)

TargetKey == PathKey(HackedDirname(UnpackTarget(res, 0)))

\* what a backup of directory path holds: the path of each member and its
\* name relative to the root of the batch.  The transaction log and
\* postmaster.pid are left out of a backup, and links are not followed.
RECURSIVE TreeBelow(_, _, _)
TreeBelow(fs, path, rel) ==
    UNION { LET p == PathJoin(path, n)
            IN  IF n \in {Str_dot, Str_dotdot} \/ SkippedPath(p) THEN {}
                ELSE {[path |-> p, rel |-> Append(rel, n)]}
                       \cup (IF S_ISDIR(fs[p].st_mode)
                             THEN TreeBelow(fs, p, Append(rel, n))
                             ELSE {}) :
            n \in Range(fs[path].entries) }

\* the number of bytes in the first k chunks written to a file
RECURSIVE ChunkBytes(_, _)
ChunkBytes(chunks, k) ==
    IF k = 0 THEN 0 ELSE ChunkBytes(chunks, k - 1) + chunks[k].n

\* chunks are the size bytes of file src, in order
WholeFile(chunks, src, size) ==
    /\ \A i \in 1..Len(chunks) :
          /\ chunks[i].kind = "file"
          /\ chunks[i].src = src
          /\ chunks[i].off = ChunkBytes(chunks, i - 1)
    /\ ChunkBytes(chunks, Len(chunks)) = size

\* the client's entry made is the server's entry fs[path]
SameEntry(fs, path, made) ==
    IF S_ISDIR(fs[path].st_mode) THEN made.kind = "dir"
    ELSE IF S_ISLNK(fs[path].st_mode)
    THEN made.kind = "lnk" /\ made.target = fs[path].link
    ELSE /\ made.kind = "reg"
         /\ WholeFile(made.chunks, path, OffInt(fs[path].st_size))

\* the unpacking of the batch has ended: the call returned, or exit(1)
UnpackEnded == rpc = "exit1" \/ (rpc = "loop" /\ ri = 1)

\* C7: for a batch, primary or auxiliary, made of regular files, directories
\* and links of pg_tblspc to directories that do not change meanwhile, and an
\* empty or missing target directory, ReceiveAndUnpackTarFile returns with
\* exactly the paths of the batch under the target directory, each of the
\* same kind, the files with the same contents and the links with the same
\* targets.
C7_UnpackRoundTrip ==
    (/\ CleanTree(sfs)
     /\ (TargetKey \o <<Str_old>>) \notin DOMAIN rfs
     /\ UnpackEnded) =>
        /\ rpc = "loop"
        /\ \A m \in TreeBelow(sfs, BatchRoot, <<>>) :
              /\ (TargetKey \o m.rel) \in DOMAIN rfs
              /\ SameEntry(sfs, m.path, rfs[TargetKey \o m.rel])
        /\ \A k \in DOMAIN rfs :
              (/\ Len(k) > Len(TargetKey)
               /\ SubSeq(k, 1, Len(TargetKey)) = TargetKey)
                  => \E m \in TreeBelow(sfs, BatchRoot, <<>>) : k = TargetKey \o m.rel

(***************************************************************************)
(* Properties of ReceiveXlogStream.                                        *)
(***************************************************************************)
\* the bytes written to file name by the first k events
RECURSIVE WrittenBefore(_, _)
WrittenBefore(name, k) ==
    IF k = 0 THEN 0
    ELSE WrittenBefore(name, k - 1)
         + (IF wevents[k].ev = "write" /\ wevents[k].name = name
            THEN wevents[k].n ELSE 0)

LastEvent == wevents[Len(wevents)]

\* C8: between two incoming messages the open segment's on-disk length and
\* write position equal blockstart's offset within the segment after the
\* last accepted block, and every write to a segment lands exactly at the
\* end of what was written to it before, starting at 0.
C8_LengthIsBlockOffset ==
    /\ (wpc = "recv" /\ walfile # -1) =>
          /\ walname \in DOMAIN waldir
          /\ waldir[walname].len = U32ModSeg(blockstart.xrecoff)
          /\ walpos = waldir[walname].len
    /\ \A i \in 1..Len(wevents) :
          wevents[i].ev = "write" =>
             wevents[i].off = WrittenBefore(wevents[i].name, i - 1)

C8_Witness ==
    /\ wpc = "recv"
    /\ walfile # -1
    /\ wmsgs >= 2
    /\ walpos > XLOG_SEG_SIZE \div 2

\* C9: a block is accepted only if its offset within the segment equals the
\* length of the open segment file (0 when none is open); otherwise the call
\* returns false and neither the directory nor any file changes.
C9_OffsetChecked ==
    /\ [](wpc = "retFalse" => ~ ENABLED NextWal)
    /\ [][(wpc = "recv" /\ wmsgs' = wmsgs + 1
          /\ wevents'[Len(wevents')].ev \in {"block", "mismatch"}) =>
         LET off == U32ModSeg(blockstart'.xrecoff)
             expected == IF walfile = -1 THEN 0 ELSE waldir[walname].len
         IN  IF off = expected
             THEN wpc' = "write"
             ELSE /\ wpc' = "retFalse"
                  /\ waldir' = waldir
                  /\ walfile' = walfile ]_vars

C9_Witness ==
    /\ wpc = "retFalse"
    /\ walfile # -1
    /\ Len(wevents) > 0
    /\ LastEvent.ev = "mismatch"
    /\ U32ModSeg(LastEvent.bs.xrecoff) # 0

\* the LSN one segment after the segment that holds lsn
SegmentEndOf(lsn) ==
    [xlogid |-> lsn.xlogid, xrecoff |-> U32(lsn.xrecoff.hi + 1, 0)]

FinishExpected == segment_finish # "NULL"

\* events that follow the write at index i which fills a segment
FillTail == IF FinishExpected THEN 3 ELSE 2

IsFill(i) ==
    /\ wevents[i].ev = "write"
    /\ wevents[i].off + wevents[i].n = XLOG_SEG_SIZE

\* the block events of the stream, in order
BlockEvents == SelectSeq(wevents, LAMBDA e : e.ev = "block")

\* every block starts where the block before it ended, as a server sends them
ContiguousStream ==
    \A k \in 2..Len(BlockEvents) :
       BlockEvents[k].bs.xrecoff
          = U32Add(BlockEvents[k - 1].bs.xrecoff, BlockEvents[k - 1].n)

\* C10: the write that stores a segment's last byte is followed at once by
\* fsync, close and the callback (with the segment's end and the timeline),
\* these happen only then, no file grows beyond XLOG_SEG_SIZE, and what is
\* left of the block goes to a newly created file named for the next segment.
\* The segment's end is the one the block headers announce; it is the end of
\* the file being closed when the blocks of the stream are contiguous.
C10_SegmentCompletion ==
    /\ \A name \in DOMAIN waldir : waldir[name].len <= XLOG_SEG_SIZE
    /\ \A i \in 1..Len(wevents) :
          LET e == wevents[i] IN
          /\ IsFill(i) =>
                /\ Len(wevents) >= i + FillTail
                /\ wevents[i + 1] = [ev |-> "fsync", name |-> e.name]
                /\ wevents[i + 2] = [ev |-> "close", name |-> e.name]
                /\ FinishExpected =>
                      wevents[i + 3] = [ev |-> "finish",
                                        lsn |-> SegmentEndOf(e.lsn),
                                        tli |-> timeline]
                /\ (Len(wevents) > i + FillTail
                       /\ wevents[i + FillTail + 1].ev \in {"open", "openfail"}) =>
                      wevents[i + FillTail + 1].name
                         = WalFileNameFor(SegmentEndOf(e.lsn), timeline)
          /\ e.ev = "write" => e.off + e.n <= XLOG_SEG_SIZE
          /\ e.ev = "fsync" => i > 1 /\ IsFill(i - 1)
          /\ e.ev = "close" => i > 2 /\ IsFill(i - 2)
          /\ e.ev = "finish" => i > 3 /\ IsFill(i - 3)
          /\ e.ev \in {"fsync", "close"} =>
                \A j \in 1..Len(wevents) :
                   (wevents[j].ev = e.ev /\ wevents[j].name = e.name) => j = i
          /\ (IsFill(i) /\ ContiguousStream) => e.name = WalFileNameFor(e.lsn, timeline)

C10_Witness ==
    \E i \in 1..Len(wevents) :
       /\ wevents[i].ev = "finish"
       /\ Len(wevents) > i + 1
       /\ wevents[i + 1].ev = "open"
       /\ wevents[i + 2].ev = "write"
       /\ wevents[i + 2].off = 0

\* the names of segment files: 24 characters, no suffix
CanonicalNames(dir) == { name \in DOMAIN dir : Len(name) = 24 }

\* C11: at every point during and after streaming, every file of the target
\* directory under a bare 24-digit segment name is exactly XLOG_SEG_SIZE
\* bytes long and has been fsynced.
C11_CanonicalNamesComplete ==
    \A name \in CanonicalNames(waldir) :
       /\ waldir[name].len = XLOG_SEG_SIZE
       /\ waldir[name].synced

\* C14: ReceiveXlogStream changes or removes only files it created itself;
\* it creates a file only under a name that does not exist, and returns
\* false leaving the directory alone when the name of the segment to open
\* exists; the name of a created file is the rendering of the timeline, the
\* log file and the segment number of the first byte written to it.
OpenedBefore(name) ==
    \E i \in 1..Len(wevents) :
       wevents[i].ev = "open" /\ wevents[i].name = name

C14_ExistingFilesUntouched ==
    [][ /\ \A name \in DOMAIN waldir :
              (name \notin DOMAIN waldir' \/ waldir'[name] # waldir[name])
                 => OpenedBefore(name)
        /\ \A i \in (Len(wevents) + 1)..Len(wevents') :
              wevents'[i].ev = "open" =>
                 /\ wevents'[i].name \notin DOMAIN waldir
                 /\ i < Len(wevents') =>
                       (wevents'[i + 1].ev = "write" =>
                          /\ wevents'[i + 1].off = 0
                          /\ wevents'[i].name =
                                Hex8(timeline)
                                   \o Hex8(wevents'[i + 1].lsn.xlogid)
                                   \o Hex8(ToU32(wevents'[i + 1].lsn.xrecoff.hi)))
        /\ ( /\ wpc = "write"
             /\ walfile = -1
             /\ XLogFileName(timeline, blockstart.xlogid,
                             ToU32(blockstart.xrecoff.hi)) \in DOMAIN waldir )
              => /\ wpc' = "retFalse"
                 /\ waldir' = waldir
                 /\ walfile' = -1 ]_vars

\* a call that found the name of the segment to open in the directory, after
\* it had created another segment itself
C14_Witness ==
    /\ wpc = "retFalse"
    /\ wevents # <<>>
    /\ LastEvent.ev = "openfail"
    /\ LastEvent.name \in DOMAIN waldir
    /\ \E i \in 1..Len(wevents) : wevents[i].ev = "open"

\* C16: when ReceiveXlogStream returns false, no segment file is left open.
C16_ClosedOnError ==
    wpc = "retFalse" => walfile = -1

(***************************************************************************)
(* Properties of pg_receivexlog.                                           *)
(***************************************************************************)
\* the files of dir that carry a segment name of timeline tli
SegmentsOf(dir, tli) ==
    { name \in DOMAIN dir :
         LooksLikeXlog(name) /\ ScanHex8(name, 0) = tli }

\* C12: when START_REPLICATION is about to be issued, every file of the
\* current timeline that was found under a 24-digit segment name with a
\* length other than 16 MiB has been renamed, so none is left under such a
\* name, whatever the directory held and in whatever order it was read.
C12_PartialsRenamedBeforeStart ==
    (xpc = "streaming" /\ wpc = "start") =>
       \A name \in SegmentsOf(waldir, timeline) :
          waldir[name].len = 16 * 1024 * 1024

\* the completed segments of timeline tli in dir, as <<file_id, seg_index>>
CompletedSegments(dir, tli) ==
    { <<ScanHex8(name, 8), ScanHex8(name, 16)>> :
         name \in { n \in SegmentsOf(dir, tli) : dir[n].len = 16 * 1024 * 1024 } }

\* the highest of a non-empty set of <<file_id, seg_index>>
HighestSegment(segs) ==
    CHOOSE s \in segs :
       \A t \in segs :
          t = s \/ U32Less(t[1], s[1]) \/ (t[1] = s[1] /\ U32Less(t[2], s[2]))

\* the position of the byte after segment s: (file_id, (seg_index + 1) * 16 MiB)
EndOfSegment(s) == XLogRecPtr(s[1], U32(s[2].lo + 1, 0))

\* C13: FindStreamingStart returns the end of the highest completed segment
\* of the current timeline, for every file_id and seg_index, and the
\* position the server reported when there is no completed segment.
C13_StreamingStart ==
    xpc = "found" =>
       xfound = IF CompletedSegments(waldir, timeline) = {}
                THEN xcurrentpos
                ELSE EndOfSegment(HighestSegment(
                        CompletedSegments(waldir, timeline)))

\* C15: the position START_REPLICATION is sent with is a multiple of the
\* segment size; it is the position FindStreamingStart returned rounded
\* down, so it lies in the same segment and never after that position.
C15_StartOnSegmentBoundary ==
    xpc = "streaming" =>
       /\ U32ModSeg(startpos.xrecoff) = 0
       /\ startpos.xlogid = xfound.xlogid
       /\ U32DivSeg(startpos.xrecoff) = U32DivSeg(xfound.xrecoff)
       /\ ~U32Less(xfound.xrecoff, startpos.xrecoff)

\* START_REPLICATION about to be sent for a position inside a segment
C15_Witness ==
    /\ xpc = "streaming"
    /\ wpc = "start"
    /\ U32ModSeg(xfound.xrecoff) # 0

\* C17: pg_receivexlog exits with 1 when ReceiveXlogStream returned false
\* and with 0 only when streaming ended successfully.
C17_ExitCode ==
    xpc = "exited" =>
       /\ wpc = "retFalse" => xexit = 1
       /\ xexit = 0 => wpc = "retTrue"

(***************************************************************************)
(* Properties of ReceiveTarFile and of the ends of a batch.                *)
(***************************************************************************)
\* the position of the last copy-out response among the first upto messages
CopyOutAt(upto) ==
    CHOOSE i \in 1..upto :
       /\ wire[i].type = "H"
       /\ \A j \in (i + 1)..upto : wire[j].type # "H"

\* the payloads of the messages after position from, up to position upto
PayloadsBetween(from, upto) ==
    [k \in 1..(upto - from) |-> wire[from + k].data]

\* the payloads of the copy in progress that the client has taken
ReceivedPayloads == PayloadsBetween(CopyOutAt(rpos), rpos)

\* 1024 zero bytes
TwoZeroBlocks ==
    [kind |-> "zero", bytes |-> <<>>, src |-> <<>>, off |-> 0, n |-> 1024]

\* C18: while ReceiveTarFile copies a batch, its file holds the payloads of
\* the copy-data messages received so far, in arrival order and nothing
\* else; at the end of the copy exactly 1024 zero bytes are appended, once;
\* no other step changes the file.
C18_ArchiveIsPayloadsThenTerminator ==
    [][ /\ rpc' = "tarcopy" =>
              /\ \A k \in (CopyOutAt(rpos') + 1)..rpos' : wire'[k].type = "d"
              /\ rfs'[file'].chunks = ReceivedPayloads'
        /\ (rpc = "tarcopy" /\ rpc' = "loop") =>
              /\ rfs'[file].chunks =
                    PayloadsBetween(CopyOutAt(rpos), rpos) \o <<TwoZeroBlocks>>
              /\ rpos' = rpos + 1 => wire[rpos'].type = "c"
        /\ (tardir # NoStr /\ rpc # "tarcopy") =>
              \A k \in ArchiveFiles : k \in DOMAIN rfs' /\ rfs'[k] = rfs[k]
      ]_vars

\* an archive of several copy-data messages was completed
C18_Witness ==
    /\ tardir # NoStr
    /\ rpc = "loop"
    /\ ri = 1
    /\ \E k \in ArchiveFiles :
          /\ Len(rfs[k].chunks) >= 4
          /\ rfs[k].chunks[Len(rfs[k].chunks)] = TwoZeroBlocks
          /\ \E i \in 1..(Len(rfs[k].chunks) - 1) : rfs[k].chunks[i].kind = "file"

\* the data messages of a batch that ended with copy-done: what lies between
\* the copy-out response, the fourth message, and the copy-done
BatchData(e) == SubSeq(wire, e.from + 5, e.to - 1)

\* the bytes of the member in progress that are still to come after message
\* m, when left of them were to come before it; -1 when m fits no member.
\* Between members only a header block starts the next member; its size
\* field tells how many bytes of body follow, padded to a full block.
AfterMessage(left, m) ==
    IF left < 0 THEN -1
    ELSE IF left = 0
    THEN IF m.data.kind = "bytes" /\ m.data.n = TAR_BLOCK
            /\ m.data.bytes[1] # NUL /\ ScanSize(m.data.bytes).matched
         THEN The({ size + PaddingOf(size) :
                       size \in {ScanSize(m.data.bytes).val} })
         ELSE -1
    ELSE IF m.data.n <= left THEN left - m.data.n
    ELSE -1

RECURSIVE MemberLeft(_, _)
MemberLeft(msgs, k) ==
    IF k = 0 THEN 0
    ELSE The({ AfterMessage(left, msgs[k]) :
                  left \in {MemberLeft(msgs, k - 1)} })

\* message m carries zero bytes only
AllZero(m) ==
    \/ m.data.kind = "zero"
    \/ m.data.kind = "bytes" /\ \A i \in 1..Len(m.data.bytes) : m.data.bytes[i] = NUL

\* C19 as stated: in every batch, after the last member and before
\* copy-done, the sender emits two 512-byte blocks of zeros.
C19_SenderTerminator ==
    \A k \in 1..Len(sevents) :
        (sevents[k].ev = "batch" /\ sevents[k].ok) =>
            \E j \in 0..Len(BatchData(sevents[k])) :
               /\ MemberLeft(BatchData(sevents[k]), j) = 0
               /\ \A i \in (j + 1)..Len(BatchData(sevents[k])) :
                     AllZero(BatchData(sevents[k])[i])
               /\ PayloadBytes(SubSeq(BatchData(sevents[k]), j + 1,
                                      Len(BatchData(sevents[k]))))
                     = 2 * 512

\* C19, amended: in every batch the copy-done follows the last byte of the
\* last member: the copy data is a sequence of whole members, each a header
\* block and the padded body its size field announces, and no terminator
\* block is sent.
C19_CopyDoneAfterLastMember ==
    \A k \in 1..Len(sevents) :
        (sevents[k].ev = "batch" /\ sevents[k].ok) =>
            /\ wire[sevents[k].to] = CopyDone
            /\ MemberLeft(BatchData(sevents[k]), Len(BatchData(sevents[k]))) = 0
            /\ \A i \in 1..Len(BatchData(sevents[k])) :
                  /\ BatchData(sevents[k])[i].type = "d"
                  /\ MemberLeft(BatchData(sevents[k]), i - 1) = 0
                        => ~AllZero(BatchData(sevents[k])[i])

\* a batch was completed whose last member is a regular file with padding
C19_Witness ==
    \E k \in 1..Len(sevents) :
        /\ sevents[k].ev = "batch" /\ sevents[k].ok
        /\ Len(BatchData(sevents[k])) >= 3
        /\ wire[sevents[k].to - 1].data.kind = "zero"
        /\ wire[sevents[k].to - 2].data.kind = "file"

\* the copy-data messages of the batch the unpacker has taken: the copy-out
\* response is the fourth message
UnpackedData == SubSeq(wire, 5, rpos)

\* the copy ends here: the next message is no copy data
CopyEndsNext == rpos < Len(wire) /\ wire[rpos + 1].type # "d"

\* C20: when the copy ends while a member's body or padding is still to
\* come, so that the unpacker has the file open, it exits with 'last file
\* was never finished'; it returns, to go on with the next batch, only when
\* the copy ends between members.
C20_UnfinishedFileFails ==
    [][ (rpc = "unpack" /\ CopyEndsNext) =>
           IF MemberLeft(UnpackedData, Len(UnpackedData)) > 0
           THEN /\ file # NoFile
                /\ current_len_left > 0 \/ current_padding > 0
                /\ rpc' = "exit1"
                /\ rexit' = "last file was never finished"
           ELSE /\ MemberLeft(UnpackedData, Len(UnpackedData)) = 0
                /\ file = NoFile
                /\ rpc' = "loop"
                /\ ri' = ri + 1
                /\ rexit' = rexit
      ]_vars

\* the copy ended when the body was complete and the padding still to come
C20_Witness ==
    /\ rpc = "exit1"
    /\ rexit = "last file was never finished"
    /\ current_len_left = 0
    /\ current_padding > 0
    /\ file # NoFile

\* C21: a message shorter than STREAMING_HEADER_SIZE + 1 bytes, or whose
\* first byte is not 'w', makes ReceiveXlogStream return false without
\* creating or writing any file; every message taken for a block is a 'w'
\* message with at least one byte after the header.
C21_ShortOrForeignRejected ==
    [][ \A i \in (Len(wevents) + 1)..Len(wevents') :
           /\ wevents'[i].ev = "reject" =>
                 /\ wpc' = "retFalse"
                 /\ waldir' = waldir
                 /\ walfile' = walfile
                 /\ Len(wevents') = Len(wevents) + 1
           /\ wevents'[i].ev \in {"block", "mismatch"} =>
                 /\ wpc = "recv"
                 /\ STREAMING_HEADER_SIZE + wevents'[i].n
                       >= STREAMING_HEADER_SIZE + 1
      ]_vars

\* a message of exactly STREAMING_HEADER_SIZE bytes, and one that does not
\* begin with 'w', arriving while a segment is open
C21_Witness ==
    /\ wpc = "retFalse"
    /\ wevents # <<>>
    /\ LastEvent.ev = "reject"
    /\ \/ LastEvent.r = STREAMING_HEADER_SIZE /\ LastEvent.first = CHAR_w
       \/ LastEvent.r > STREAMING_HEADER_SIZE /\ LastEvent.first # CHAR_w
    /\ walfile # -1

(***************************************************************************)
(* Properties of the tar header.                                           *)
(***************************************************************************)
\* the header the call of sf_in produced
SentHeader == sf_out.msgs[1].data.bytes

\* the bytes of h at C offsets [from..to)
Field(h, from, to) == SubSeq(h, from + 1, to)

\* every byte of s is an octal digit
AllOctal(s) == \A i \in 1..Len(s) : s[i] >= DIGIT0 /\ s[i] <= DIGIT0 + 7

\* the number eleven octal digits denote, as a size: the first digit counts
\* 2^30, the unit of the high word
ElevenOctal(s) ==
    Off(s[1] - DIGIT0, OctalValue([i \in 1..10 |-> s[i + 1] - DIGIT0]))

\* C22: sendFile raises its error for every size of 2^33 and more, before
\* anything is sent; every smaller size is accepted and the eleven octal
\* digits of the size field denote it.
C22_MemberSizeLimit ==
    sf_pc = "started" =>
       /\ sf_out.err <=> (~sf_in.openable \/ sf_in.size.hi >= 8)
       /\ sf_out.err => sf_out.msgs = <<>>
       /\ ~sf_out.err =>
             /\ Len(sf_out.msgs) = 1
             /\ AllOctal(Field(SentHeader, 124, 135))
             /\ ElevenOctal(Field(SentHeader, 124, 135)) = sf_in.size

\* a file of 2^33 - 1 bytes was accepted
C22_Witness ==
    /\ sf_pc = "started"
    /\ ~sf_out.err
    /\ sf_in.size = Off(7, 1073741823)

\* the header of the call of sf_in before the checksum loop
HeaderFields ==
    _tarHeaderFields(NameOfLength(sf_in.len), HeaderLink(sf_in), HeaderStat(sf_in))

\* n bytes b
Fill(n, b) == [i \in 1..n |-> b]

\* the value of the octal digits s
OctalNumber(s) == OctalValue([i \in 1..Len(s) |-> s[i] - DIGIT0])

\* C23: the checksum loop ends after at most two evaluations of
\* _tarChecksum and changes the checksum field only; the six octal digits
\* at [148..154) are _tarChecksum of the header sent, which is the sum of
\* its 512 bytes with [148..156) taken as eight blanks, whatever the field
\* holds.
C23_ChecksumFixedPoint ==
    sf_pc = "header" =>
       /\ ChecksumEvaluations(HeaderFields, 0) <= 2
       /\ Field(SentHeader, 0, 148) = Field(HeaderFields, 0, 148)
       /\ Field(SentHeader, 156, 512) = Field(HeaderFields, 156, 512)
       /\ Len(SentHeader) = 512
       /\ AllOctal(Field(SentHeader, 148, 154))
       /\ OctalNumber(Field(SentHeader, 148, 154)) = _tarChecksum(SentHeader)
       /\ _tarChecksum(SentHeader)
             = SumBytes(Poke(SentHeader, 148, Fill(8, SPACE)), 0, 511)
       /\ \A b \in {NUL, DIGIT0, 255} :
             _tarChecksum(Poke(SentHeader, 148, Fill(8, b)))
                = _tarChecksum(SentHeader)

\* the header of a link with a long name and a large owner
C23_Witness ==
    /\ sf_pc = "header"
    /\ S_ISLNK(sf_in.mode)
    /\ sf_in.len = 98
    /\ sf_in.uid = 2097151
    /\ ChecksumEvaluations(HeaderFields, 0) = 2

\* the header of the same call for a name of three characters
ShortNameHeader ==
    _tarWriteHeader(NameOfLength(3), HeaderLink(sf_in), HeaderStat(sf_in))

\* C26: in the header of a directory or a link, whatever the length of the
\* path, the name field [0..100) holds a NUL, the name it holds has at most
\* 99 characters before its final '/', and no byte at offset 100 or above
\* depends on the name (the checksum apart).
C26_NameField ==
    (sf_pc = "header" /\ ~S_ISREG(sf_in.mode)) =>
       /\ \E i \in 1..100 : SentHeader[i] = NUL
       /\ Len(CStrFrom(SentHeader, 0)) <= 100
       /\ CStrFrom(SentHeader, 0)[Len(CStrFrom(SentHeader, 0))] = SLASH
       /\ Field(SentHeader, 100, 148) = Field(ShortNameHeader, 100, 148)
       /\ Field(SentHeader, 156, 512) = Field(ShortNameHeader, 156, 512)

\* C27: in every header the uid is seven octal digits and a blank at
\* [108..116), the gid is seven octal digits and a blank at [116..124), and
\* the size field [124..136) is eleven octal digits and a blank.
C27_OwnerFields ==
    sf_pc = "header" =>
       /\ AllOctal(Field(SentHeader, 108, 115))
       /\ SentHeader[115 + 1] = SPACE
       /\ OctalNumber(Field(SentHeader, 108, 115)) = sf_in.uid
       /\ AllOctal(Field(SentHeader, 116, 123))
       /\ SentHeader[123 + 1] = SPACE
       /\ OctalNumber(Field(SentHeader, 116, 123)) = sf_in.gid
       /\ AllOctal(Field(SentHeader, 124, 135))
       /\ SentHeader[135 + 1] = SPACE

(***************************************************************************)
(* Properties of the members of an archive.                                *)
(***************************************************************************)
\* the header blocks among the copy-data messages msgs, in the order sent
HeadersOf(msgs) ==
    SelectSeq([k \in 1..Len(msgs) |->
                  IF MemberLeft(msgs, k - 1) = 0 /\ msgs[k].data.kind = "bytes"
                  THEN msgs[k].data.bytes ELSE <<>>],
              LAMBDA h : h # <<>>)

\* the name of the member with header h
MemberName(h) == CStrFrom(h, 0)

\* the type flag of the member with header h
Typeflag(h) == h[157]

\* s starts with p
StartsWith(s, p) == Len(s) >= Len(p) /\ SubSeq(s, 1, Len(p)) = p

\* the batches sent whole
CompleteBatches ==
    { k \in 1..Len(sevents) : sevents[k].ev = "batch" /\ sevents[k].ok }

\* C24: the archive of every batch starts with a directory member for the
\* walked root itself, "./" in the primary archive, ahead of every other
\* member.
C24_RootMember ==
    \A k \in CompleteBatches :
        \E hs \in {HeadersOf(BatchData(sevents[k]))} :
            /\ hs # <<>>
            /\ MemberName(hs[1]) = WalkRoot(sevents[k].arg) \o <<SLASH>>
            /\ Typeflag(hs[1]) = DIGIT0 + 5

\* C25: in every batch, primary and auxiliary, every member name starts
\* with "./" and so is relative to the root of the batch.
C25_RelativeNames ==
    \A k \in CompleteBatches :
        \E hs \in {HeadersOf(BatchData(sevents[k]))} :
            \A i \in 1..Len(hs) :
                StartsWith(MemberName(hs[i]), <<DOT, SLASH>>)

(***************************************************************************)
(* Properties of the walk.                                                 *)
(***************************************************************************)
\* the walk has returned without raising an error
Walked == sf_pc = "walked" /\ ~sf_out.err

\* the member names of the walk
WalkNames ==
    UNION { { MemberName(hs[i]) : i \in 1..Len(hs) } :
              hs \in {HeadersOf(sf_out.msgs)} }

\* the paths of the tree below the walked root
BelowRoot ==
    { p \in DOMAIN WalkTree(sf_in) :
        StartsWith(p, WalkRoot(sf_in.location) \o <<SLASH>>) }

\* the paths the walk of the data directory leaves out: pg_xlog with what
\* it holds, and postmaster.pid
LeftOut(p) ==
    \/ p = Str_dot_pg_xlog
    \/ StartsWith(p, Str_dot_pg_xlog \o <<SLASH>>)
    \/ p = Str_dot_postmaster_pid

\* pg_xlog, postmaster.pid or what pg_xlog holds, in whatever directory
ReservedName(p) ==
    \E dir \in {SubSeq(p, 1, n) : n \in 0..Len(p)} :
        \/ p = PathJoin(dir, Str_pg_xlog)
        \/ p = PathJoin(dir, Str_postmaster_pid)
        \/ p = PathJoin(PathJoin(dir, Str_pg_xlog), Str_w)

\* the member name of the entry at p: a directory gets a slash
NameInArchive(p) ==
    IF S_ISREG(WalkTree(sf_in)[p].st_mode) THEN p ELSE p \o <<SLASH>>

\* the sizes of the regular files among the paths ps, added up
RECURSIVE TotalSize(_)
TotalSize(ps) ==
    IF ps = {} THEN 0
    ELSE LET p == CHOOSE q \in ps : TRUE
         IN  (IF S_ISREG(WalkTree(sf_in)[p].st_mode)
              THEN OffInt(WalkTree(sf_in)[p].st_size) ELSE 0)
             + TotalSize(ps \ {p})

\* C28: the walk of the data directory has no member for ./pg_xlog, for
\* what it holds, or for ./postmaster.pid, and counts none of them in the
\* size, when sending and when only counting; an entry of the same name in
\* another directory, or under the root of a tablespace, is sent and counted.
C28_ReservedNamesSkippedAtRootOnly ==
    Walked =>
       /\ sf_out.size = OffOfInt(TotalSize({p \in BelowRoot : ~LeftOut(p)}))
       /\ ~sf_in.sizeonly =>
             \A p \in BelowRoot :
                 ReservedName(p) => (NameInArchive(p) \in WalkNames <=> ~LeftOut(p))

\* the data directory was walked and ./d/postmaster.pid and what ./d/pg_xlog
\* holds were sent
C28_Witness ==
    /\ Walked
    /\ ~sf_in.sizeonly
    /\ sf_in.location = NoLocation
    /\ PathJoin(PathJoin(Str_dot, Str_d), Str_postmaster_pid) \in WalkNames
    /\ PathJoin(PathJoin(PathJoin(Str_dot, Str_d), Str_pg_xlog), Str_w) \in WalkNames
    /\ Str_dot_postmaster_pid \notin WalkNames

\* the directory the entry at p is in
RECURSIVE PathParent(_)
PathParent(p) ==
    IF p = <<>> THEN <<>>
    ELSE IF p[Len(p)] = SLASH THEN SubSeq(p, 1, Len(p) - 1)
    ELSE PathParent(SubSeq(p, 1, Len(p) - 1))

\* the links of the tree below the walked root
LinksBelowRoot == { p \in BelowRoot : S_ISLNK(WalkTree(sf_in)[p].st_mode) }

\* the names of the members of the walk that are links
WalkLinkNames ==
    UNION { { MemberName(hs[i]) : i \in { j \in 1..Len(hs) :
                                            Typeflag(hs[j]) = DIGIT0 + 2 } } :
              hs \in {HeadersOf(sf_out.msgs)} }

\* C29: the link members of the walk are the links whose directory is
\* ./pg_tblspc; a link elsewhere has no member, the size is what it would
\* be without such links, and no member is what a link points to or is
\* reached through a link.
C29_LinksOnlyInPgTblspc ==
    Walked =>
       /\ sf_out.size
             = sendDir(WalkTree([sf_in EXCEPT !.links = FALSE]),
                       WalkRoot(sf_in.location), TRUE).size
       /\ ~sf_in.sizeonly =>
             /\ WalkLinkNames
                   = { p \o <<SLASH>> : p \in { q \in LinksBelowRoot :
                                                  PathParent(q) = Str_dot_pg_tblspc } }
             /\ \A p \in LinksBelowRoot :
                   /\ PathParent(p) # Str_dot_pg_tblspc
                         => p \notin WalkNames /\ p \o <<SLASH>> \notin WalkNames
                   /\ \A name \in WalkNames :
                         /\ StartsWith(name, p \o <<SLASH>>) => name = p \o <<SLASH>>
                         /\ ~StartsWith(name, WalkTree(sf_in)[p].link)

\* the data directory was walked with links in ./, ./d and ./pg_tblspc: the
\* two of ./pg_tblspc are members, the one of ./ is not
C29_Witness ==
    /\ Walked
    /\ ~sf_in.sizeonly
    /\ sf_in.links
    /\ PathJoin(Str_dot, Str_l) \in LinksBelowRoot
    /\ PathJoin(Str_dot, Str_l) \o <<SLASH>> \notin WalkNames
    /\ WalkLinkNames = { PathJoin(Str_dot_pg_tblspc, TblspcOid(1)) \o <<SLASH>>,
                         PathJoin(Str_dot_pg_tblspc, Str_l) \o <<SLASH>> }

\* the member names of the walk, in the order sent
WalkOrder ==
    The({ [i \in 1..Len(hs) |-> MemberName(hs[i])] :
            hs \in {HeadersOf(sf_out.msgs)} })

\* the path of the entry with member name n: without the slash of a
\* directory or link
PathOfName(n) ==
    IF n # <<>> /\ n[Len(n)] = SLASH THEN SubSeq(n, 1, Len(n) - 1) ELSE n

\* C30: in the stream of a walk every member that is in a directory other
\* than the walked root comes after the directory member of that directory.
C30_DirectoryBeforeContents ==
    (Walked /\ ~sf_in.sizeonly) =>
        \E order \in {WalkOrder} :
            \A i \in 1..Len(order) :
                PathParent(PathOfName(order[i])) # WalkRoot(sf_in.location) =>
                    \E j \in 1..(i - 1) :
                        /\ order[j] = PathParent(PathOfName(order[i])) \o <<SLASH>>
                        /\ Typeflag(HeadersOf(sf_out.msgs)[j]) = DIGIT0 + 5

\* a walk sent ./d/pg_xlog/w, two directories below the root
C30_Witness ==
    /\ Walked
    /\ ~sf_in.sizeonly
    /\ \E i \in 1..Len(WalkOrder) :
          WalkOrder[i] = PathJoin(PathJoin(PathJoin(Str_dot, Str_d), Str_pg_xlog), Str_w)

(***************************************************************************)
(* Properties of the unpacker on any stream.                               *)
(***************************************************************************)
\* the unpacker has no file open and the next buffer is a header of 512
\* bytes whose size field reads and whose name ends in a slash
AtSlashHeader ==
    /\ rpc = "unpack"
    /\ file = NoFile
    /\ rpos < Len(wire)
    /\ wire[rpos + 1].type = "d"
    /\ wire[rpos + 1].data.kind = "bytes"
    /\ wire[rpos + 1].data.n = TAR_BLOCK
    /\ ScanSize(wire[rpos + 1].data.bytes).matched
    /\ MemberName(wire[rpos + 1].data.bytes) # <<>>
    /\ MemberName(wire[rpos + 1].data.bytes)[Len(MemberName(wire[rpos + 1].data.bytes))]
          = SLASH

\* the path the next header names, without its slash
NamedPath ==
    PathJoin(current_path, PathOfName(MemberName(wire[rpos + 1].data.bytes)))

\* the regular files are the ones there were, as they were
NoFileOpened ==
    /\ file' = NoFile
    /\ \A k \in DOMAIN rfs' :
          rfs'[k].kind = "reg" => k \in DOMAIN rfs /\ rfs'[k] = rfs[k]

\* the process exits with msg and the files are as they were
ExitsWith(msg) == rpc' = "exit1" /\ rexit' = msg /\ rfs' = rfs

\* C31: with no file open, a header whose name ends in a slash makes a
\* directory when its type flag is '5' and a link to the string at offset
\* 157 when it is '2', the process exiting when that cannot be made, and
\* ends the process as an unknown link indicator for any other type flag;
\* no regular file is opened, and after a directory or link the unpacker
\* has no file open and takes the next buffer for a header.
C31_SlashHeaders ==
    [][AtSlashHeader =>
          /\ NoFileOpened
          /\ IF Typeflag(wire[rpos + 1].data.bytes) = DIGIT0 + 5
             THEN IF MkdirOk(rfs, NamedPath)
                  THEN /\ rpc' = "unpack"
                       /\ rfs' = WithEntry(rfs, NamedPath, NewDirectory)
                  ELSE ExitsWith("could not create directory")
             ELSE IF Typeflag(wire[rpos + 1].data.bytes) = DIGIT0 + 2
             THEN IF SymlinkOk(rfs, CStrFrom(wire[rpos + 1].data.bytes, 157), NamedPath)
                  THEN /\ rpc' = "unpack"
                       /\ rfs' = WithEntry(rfs, NamedPath,
                                    NewSymlink(CStrFrom(wire[rpos + 1].data.bytes, 157)))
                  ELSE ExitsWith("could not create symbolic link")
             ELSE ExitsWith("unknown link indicator")]_vars

\* a directory and a link were made and the unpacker goes on
C31_Witness ==
    /\ rpc = "unpack"
    /\ file = NoFile
    /\ rpos = 6
    /\ \E k \in DOMAIN rfs : k # <<>> /\ rfs[k].kind = "dir" /\ k[Len(k)] = Str_a
    /\ \E k \in DOMAIN rfs : rfs[k] = NewSymlink(Str_slash_t)

(***************************************************************************)
(* Properties of the framing of a member.                                  *)
(***************************************************************************)
\* C32: sendFile sends the header as one message of 512 bytes, then body
\* messages of 1 to 32768 bytes each that add up to the declared size, then
\* the padding as one message of (512 - size mod 512) mod 512 bytes, or no
\* message when that is 0; the unpacker's count of the member comes out
\* even at its last message.
C32_MemberFraming ==
    (sf_pc = "returned" /\ ~sf_out.err) =>
        /\ sf_out.msgs[1].type = "d"
        /\ sf_out.msgs[1].data.kind = "bytes"
        /\ sf_out.msgs[1].data.n = 512
        /\ Len(sf_out.msgs[1].data.bytes) = 512
        /\ \E j \in 1..Len(sf_out.msgs) :
              /\ PayloadBytes(SubSeq(sf_out.msgs, 2, j)) = sf_in.size
              /\ \A i \in 2..j :
                    /\ sf_out.msgs[i].type = "d"
                    /\ sf_out.msgs[i].data.kind \in {"file", "zero"}
                    /\ sf_out.msgs[i].data.n >= 1
                    /\ sf_out.msgs[i].data.n <= 32768
              /\ IF (512 - (sf_in.size % 512)) % 512 = 0
                 THEN Len(sf_out.msgs) = j
                 ELSE /\ Len(sf_out.msgs) = j + 1
                      /\ sf_out.msgs[j + 1]
                            = CopyData(ZeroPayload((512 - (sf_in.size % 512)) % 512))
        /\ MemberLeft(sf_out.msgs, Len(sf_out.msgs)) = 0
        /\ \A k \in 1..(Len(sf_out.msgs) - 1) : MemberLeft(sf_out.msgs, k) > 0

\* a file of 70000 bytes was sent in three body messages and its padding
C32_Witness ==
    /\ sf_pc = "returned"
    /\ ~sf_out.err
    /\ sf_in.size = 70000
    /\ Len(sf_out.msgs) = 5
    /\ sf_out.msgs[2].data.n = 32768
    /\ sf_out.msgs[4].data.n = 70000 - 2 * 32768
    /\ sf_out.msgs[5].data.n = 144

\* a file of 32768 bytes was sent without a padding message
C32_NoPaddingSent ==
    /\ sf_pc = "returned"
    /\ ~sf_out.err
    /\ sf_in.size = 32768
    /\ Len(sf_out.msgs) = 2

\* the bytes of the chunks written to a file
RECURSIVE BytesWritten(_)
BytesWritten(chunks) ==
    IF chunks = <<>> THEN 0 ELSE Head(chunks).n + BytesWritten(Tail(chunks))

\* C33: whatever buffers arrive, no write to a regular file is longer than
\* what its header's size still leaves to come, so that no file gets more
\* bytes than its declared size, and current_len_left is never negative.
C33_NoOverrun ==
    [][ /\ current_len_left' >= 0
        /\ (file # NoFile /\ file \in DOMAIN rfs') =>
                BytesWritten(rfs'[file].chunks) - BytesWritten(rfs[file].chunks)
                    <= current_len_left
      ]_vars

\* C34: when ReceiveXlogStream returns true no segment file is open, and
\* every file it created holds XLOG_SEG_SIZE bytes, all of them synced.
C34_NothingOpenOnSuccess ==
    wpc = "retTrue" =>
        /\ walfile = -1
        /\ \A name \in DOMAIN waldir :
              OpenedBefore(name) =>
                  /\ waldir[name].len = XLOG_SEG_SIZE
                  /\ waldir[name].synced

\* the headers of the link members under ./pg_tblspc in complete batch k
TblspcLinkMembers(k) ==
    { h \in Range(HeadersOf(BatchData(sevents[k]))) :
         /\ Typeflag(h) = DIGIT0 + 2
         /\ StartsWith(MemberName(h), Str_dot_pg_tblspc \o <<SLASH>>) }

\* the batches of tablespaces among the complete batches
AuxiliaryBatches == { k \in CompleteBatches : sevents[k].arg # NoLocation }

\* C35: in a session that ran to its end, the link members under
\* ./pg_tblspc of the primary archive and the batches of tablespaces match
\* one to one: every such member carries a non-empty target that is the
\* location of exactly one batch, and every batch of a tablespace has its
\* member; an entry whose link cannot be read has neither.
C35_LinksMatchBatches ==
    spc = "done" =>
        \A p \in CompleteBatches \ AuxiliaryBatches :
            /\ \A h \in TblspcLinkMembers(p) :
                  /\ CStrFrom(h, 157) # <<>>
                  /\ Cardinality({ k \in AuxiliaryBatches :
                                      sevents[k].arg = CStrFrom(h, 157) }) = 1
            /\ \A k \in AuxiliaryBatches :
                  Cardinality({ h \in TblspcLinkMembers(p) :
                                   CStrFrom(h, 157) = sevents[k].arg }) = 1

\* FindStreamingStart is running
InFindStreamingStart == xpc \in {"opendir", "readdir", "closedir"}

\* name is 24 characters, each a digit or one of A to F
UpperHex24(name) ==
    /\ Len(name) = 24
    /\ \A i \in 1..24 :
          name[i] \in (DIGIT0..(DIGIT0 + 9)) \cup (65..70)

\* name is a segment of the timeline in use that is not 16 MiB long
IncompleteSegment(name) ==
    /\ UpperHex24(name)
    /\ SubSeq(name, 1, 8) = SubSeq(XLogFileName(timeline, ToU32(0), ToU32(0)), 1, 8)
    /\ waldir[name].len # XLOG_SEG_SIZE

\* C36: a step of FindStreamingStart leaves every file as it is, or renames
\* one file of the timeline in use, with a name of 24 digits 0-9 and A-F
\* and a length other than 16 MiB, to that name with .partial, no file of
\* that name being there; all other files stay as they are.  When the file
\* with .partial is there the process exits with code 1 and nothing is
\* changed.
C36_OnlyPartialsRenamed ==
    [][ InFindStreamingStart =>
          /\ \/ waldir' = waldir
             \/ \E name \in DOMAIN waldir :
                   /\ IncompleteSegment(name)
                   /\ name \o Str_partial \notin DOMAIN waldir
                   /\ DOMAIN waldir' = (DOMAIN waldir \ {name}) \cup {name \o Str_partial}
                   /\ waldir'[name \o Str_partial] = waldir[name]
                   /\ \A other \in DOMAIN waldir \ {name} : waldir'[other] = waldir[other]
          /\ ( /\ xpc = "readdir"
               /\ xde < Len(xorder)
               /\ xorder[xde + 1] \in DOMAIN waldir
               /\ IncompleteSegment(xorder[xde + 1])
               /\ xorder[xde + 1] \o Str_partial \in DOMAIN waldir ) =>
                 /\ xpc' = "exited"
                 /\ xexit' = 1
                 /\ waldir' = waldir
      ]_vars

\* an incomplete segment was renamed beside a completed one that stayed
C36_Witness ==
    /\ xpc = "closedir"
    /\ XlogName(1, 7, 2) \o Str_partial \in DOMAIN waldir
    /\ XlogName(1, 7, 2) \notin DOMAIN waldir
    /\ XlogName(1, 7, 1) \in DOMAIN waldir
    /\ waldir[XlogName(1, 7, 1)] = WholeSegment

\* the events the step adds
NewEvents == SubSeq(wevents', Len(wevents) + 1, Len(wevents'))

\* the name, with .partial, of the segment that ends at lsn: the segment
\* before the one lsn is the start of, in the same log file
FinishedPartial(lsn) ==
    XLogFileName(timeline, lsn.xlogid,
                 U32(0, (lsn.xrecoff.hi + SegsPerUint32 - 1) % SegsPerUint32))
        \o Str_partial

\* C37: in pg_receivexlog, the step that completes a segment removes the
\* file named as that segment with .partial, if there is one, and no other
\* file, and does not end the stream; no other step of the stream removes
\* a file.
C37_CallbackRemovesPartial ==
    [][ xpc = "streaming" =>
          IF \E i \in 1..Len(NewEvents) : NewEvents[i].ev = "finish"
          THEN \A i \in 1..Len(NewEvents) :
                  NewEvents[i].ev = "finish" =>
                     /\ NewEvents[i].tli = timeline
                     /\ FinishedPartial(NewEvents[i].lsn) \notin DOMAIN waldir'
                     /\ DOMAIN waldir \ DOMAIN waldir'
                           \subseteq {FinishedPartial(NewEvents[i].lsn)}
                     /\ wpc' # "retTrue"
          ELSE DOMAIN waldir \subseteq DOMAIN waldir'
      ]_vars

\* a segment was completed whose file FindStreamingStart had found and
\* renamed to .partial, and that .partial file is gone
C37_Witness ==
    /\ xpc = "streaming"
    /\ \E i \in 1..Len(wevents) :
          /\ wevents[i].ev = "finish"
          /\ FinishedPartial(wevents[i].lsn) \notin DOMAIN waldir
          /\ \E k \in 1..Len(xorder) :
                FinishedPartial(wevents[i].lsn) = xorder[k] \o Str_partial

=============================================================================
